---- MODULE Spec2Model ----
(***************************************************************************)
(* A model of gengo: one call of the top-level Generate (the router), the  *)
(* three provider adapters it dispatches to (anthropic, openai, google),   *)
(* their streaming loops, and the chat package's catalog and data-URL      *)
(* helpers.                                                                *)
(*                                                                         *)
(* Go strings are sequences of one-character strings, so that Split,       *)
(* HasPrefix, Contains and concatenation are computed, not assumed.        *)
(***************************************************************************)
EXTENDS Integers, Sequences, FiniteSets, TLC

VARIABLES
    req,            \* the *chat.Request given to Generate
    opts,           \* the options given to Generate: which of WithStream and
                    \* WithModelCatalog were passed, and their arguments
    pc,             \* where the invocation is
    adapter,        \* the adapter the router dispatched to, "none" before
    calls,          \* the adapter invocations made: <<[adapter, req, opts]>>
    path,           \* "none", "stream" or "blocking": the branch the adapter took
    vendorCalls,    \* number of vendor requests issued (blocking call or stream open)
    streamOpen,     \* the vendor stream is open
    opened,         \* number of vendor streams opened
    ctxDone,        \* the caller's context is cancelled
    cancelledMid,   \* the context was cancelled while the stream was being consumed
    events,         \* the vendor events consumed so far, in order
    delivered,      \* the chunks passed to the Streamer, in order
    log,            \* events consumed and chunks delivered, interleaved as they happened
    streamErr,      \* the vendor stream reported an error (other than end of stream)
    content,        \* the adapter's text accumulator
    usage,          \* the adapter's usage accumulator
    finishReason,   \* google: the last vendor finish reason seen by the streaming loop
    vreq,           \* the vendor request the adapter issued, Nil before
    vresp,          \* the vendor's answer to the blocking call, Nil before
    adapterResult,  \* what the adapter's Generate returned, Nil before
    result,         \* what the top-level Generate returned, Nil before
    other,          \* a second, concurrent invocation's variables while it does
                    \* not run, Nil when there is none
    parses,         \* number of times the embedded catalog has been unmarshalled
    arg,            \* the arguments of a direct call of a function of package chat
    ret             \* what that call returned, Nil before

vars == <<req, opts, pc, adapter, calls, path, vendorCalls, streamOpen, opened,
          ctxDone, cancelledMid, events, delivered, log, streamErr, content, usage, finishReason,
          vreq, vresp, adapterResult, result, other, parses, arg, ret>>

\* a nil pointer, slice or func value; errors are strings and NoErr is the nil error
Nil == [nil |-> TRUE]
NoErr == "nil"

(***************************************************************************)
(* Bounds of the model.                                                    *)
(***************************************************************************)
\* longest vendor event sequence a stream delivers
MaxEvents == 2
\* most tools a request carries
MaxTools == 1
\* most "/"-separated segments of a catalog identifier
MaxSegments == 3

(***************************************************************************)
(* Go string helpers (package strings).                                    *)
(***************************************************************************)
HasPrefix(s, p) ==
    /\ Len(p) <= Len(s)
    /\ SubSeq(s, 1, Len(p)) = p

TrimPrefix(s, p) ==
    IF HasPrefix(s, p) THEN SubSeq(s, Len(p) + 1, Len(s)) ELSE s

\* positions at which sub occurs in s
Occurrences(s, sub) ==
    { i \in 1..(Len(s) - Len(sub) + 1) : SubSeq(s, i, i + Len(sub) - 1) = sub }

Contains(s, sub) == Len(sub) = 0 \/ Occurrences(s, sub) # {}

Min(S) == CHOOSE x \in S : \A y \in S : x <= y

\* strings.Split for a non-empty separator
RECURSIVE Split(_, _)
Split(s, sep) ==
    IF Occurrences(s, sep) = {}
    THEN <<s>>
    ELSE LET i == Min(Occurrences(s, sep))
         IN  <<SubSeq(s, 1, i - 1)>> \o Split(SubSeq(s, i + Len(sep), Len(s)), sep)

RECURSIVE Concat(_)
Concat(ss) == IF ss = <<>> THEN <<>> ELSE Head(ss) \o Concat(Tail(ss))

(***************************************************************************)
(* encoding/base64, StdEncoding, over bytes 0..255.                        *)
(***************************************************************************)
B64Alphabet ==
    << "A", "B", "C", "D", "E", "F", "G", "H", "I", "J", "K", "L", "M", "N", "O", "P",
       "Q", "R", "S", "T", "U", "V", "W", "X", "Y", "Z", "a", "b", "c", "d", "e", "f",
       "g", "h", "i", "j", "k", "l", "m", "n", "o", "p", "q", "r", "s", "t", "u", "v",
       "w", "x", "y", "z", "0", "1", "2", "3", "4", "5", "6", "7", "8", "9", "+", "/" >>
B64Pad == "="

B64Char(v) == B64Alphabet[v + 1]
IsB64Char(c) == \E i \in 1..Len(B64Alphabet) : B64Alphabet[i] = c
B64Value(c) == (CHOOSE i \in 1..Len(B64Alphabet) : B64Alphabet[i] = c) - 1

RECURSIVE EncodeToString(_)
EncodeToString(data) ==
    IF Len(data) = 0 THEN <<>>
    ELSE IF Len(data) = 1
    THEN << B64Char(data[1] \div 4), B64Char((data[1] % 4) * 16), B64Pad, B64Pad >>
    ELSE IF Len(data) = 2
    THEN << B64Char(data[1] \div 4),
            B64Char((data[1] % 4) * 16 + data[2] \div 16),
            B64Char((data[2] % 16) * 4), B64Pad >>
    ELSE << B64Char(data[1] \div 4),
            B64Char((data[1] % 4) * 16 + data[2] \div 16),
            B64Char((data[2] % 16) * 4 + data[3] \div 64),
            B64Char(data[3] % 64) >>
         \o EncodeToString(SubSeq(data, 4, Len(data)))

\* one quantum of four characters; last tells whether padding may appear
DecodeQuantum(q, last) ==
    LET ok(i) == IsB64Char(q[i])
        v(i)  == B64Value(q[i])
        b1    == v(1) * 4 + v(2) \div 16
        b2    == (v(2) % 16) * 16 + v(3) \div 4
        b3    == (v(3) % 4) * 64 + v(4)
    IN  IF ok(1) /\ ok(2) /\ ok(3) /\ ok(4)
        THEN [ok |-> TRUE, data |-> <<b1, b2, b3>>]
        ELSE IF last /\ ok(1) /\ ok(2) /\ ok(3) /\ q[4] = B64Pad
        THEN [ok |-> TRUE, data |-> <<b1, b2>>]
        ELSE IF last /\ ok(1) /\ ok(2) /\ q[3] = B64Pad /\ q[4] = B64Pad
        THEN [ok |-> TRUE, data |-> <<b1>>]
        ELSE [ok |-> FALSE, data |-> <<>>]

RECURSIVE DecodeString(_)
DecodeString(s) ==
    IF Len(s) = 0 THEN [ok |-> TRUE, data |-> <<>>]
    ELSE IF Len(s) < 4 THEN [ok |-> FALSE, data |-> <<>>]
    ELSE LET q    == DecodeQuantum(SubSeq(s, 1, 4), Len(s) = 4)
             rest == DecodeString(SubSeq(s, 5, Len(s)))
         IN  IF q.ok /\ rest.ok
             THEN [ok |-> TRUE, data |-> q.data \o rest.data]
             ELSE [ok |-> FALSE, data |-> <<>>]

(***************************************************************************)
(* chat: data URLs.                                                        *)
(***************************************************************************)
DataPrefix == <<"d", "a", "t", "a", ":">>
Base64Sep == <<";", "b", "a", "s", "e", "6", "4", ",">>

\* IsDataURL that looks for the separator only
IsDataURLBySeparator(dataURL) == Contains(dataURL, Base64Sep)

IsDataURL(dataURL) == HasPrefix(dataURL, DataPrefix) /\ Contains(dataURL, Base64Sep)

\* SplitDataURL that splits without trimming the "data:" prefix
SplitDataURLKeepPrefix(dataURL) ==
    IF ~IsDataURL(dataURL)
    THEN [mimeType |-> <<>>, encodedData |-> <<>>, err |-> "not a data URL"]
    ELSE LET parts == Split(dataURL, Base64Sep)
         IN  IF Len(parts) # 2
             THEN [mimeType |-> <<>>, encodedData |-> <<>>, err |-> "invalid data URL"]
             ELSE [mimeType |-> parts[1], encodedData |-> parts[2], err |-> NoErr]

SplitDataURL(dataURL) ==
    IF ~IsDataURL(dataURL)
    THEN [mimeType |-> <<>>, encodedData |-> <<>>, err |-> "not a data URL"]
    ELSE LET parts == Split(TrimPrefix(dataURL, DataPrefix), Base64Sep)
         IN  IF Len(parts) # 2
             THEN [mimeType |-> <<>>, encodedData |-> <<>>, err |-> "invalid data URL"]
             ELSE [mimeType |-> parts[1], encodedData |-> parts[2], err |-> NoErr]

DecodeDataURL(dataURL) ==
    LET parts == Split(dataURL, Base64Sep)
    IN  IF Len(parts) # 2
        THEN [data |-> <<>>, mimeType |-> <<>>, err |-> "invalid data URL"]
        ELSE IF ~HasPrefix(parts[1], DataPrefix)
        THEN [data |-> <<>>, mimeType |-> <<>>, err |-> "invalid data URL"]
        ELSE LET d == DecodeString(parts[2])
             IN  IF ~d.ok
                 THEN [data |-> <<>>, mimeType |-> <<>>, err |-> "base64 decode failed"]
                 ELSE [data |-> d.data, mimeType |-> TrimPrefix(parts[1], DataPrefix),
                       err |-> NoErr]

EncodeDataURL(mimeType, data) ==
    DataPrefix \o mimeType \o Base64Sep \o EncodeToString(data)

(***************************************************************************)
(* chat: the model catalog.                                                *)
(***************************************************************************)
Slash == <<"/">>

\* the embedded catalog (modelcatalog.json), cut down to one entry per provider
\* and one entry of a provider that has no adapter
EmbeddedCatalog ==
    << [Model |-> <<"o">>, Provider |-> "openai",
        InputTokenCost |-> 1, OutputTokenCost |-> 2,
        CacheCreationTokenCost |-> 3, CacheReadTokenCost |-> 1],
       [Model |-> <<"g", "/", "f">>, Provider |-> "gemini",
        InputTokenCost |-> 1, OutputTokenCost |-> 3,
        CacheCreationTokenCost |-> 3, CacheReadTokenCost |-> 1],
       [Model |-> <<"c">>, Provider |-> "anthropic",
        InputTokenCost |-> 2, OutputTokenCost |-> 5,
        CacheCreationTokenCost |-> 3, CacheReadTokenCost |-> 1],
       [Model |-> <<"m", "/", "l">>, Provider |-> "mistral",
        InputTokenCost |-> 1, OutputTokenCost |-> 1,
        CacheCreationTokenCost |-> 3, CacheReadTokenCost |-> 1] >>

\* a catalog a caller injects with WithModelCatalog: other prices, and "o" is
\* served by anthropic
InjectedCatalog ==
    << [Model |-> <<"o">>, Provider |-> "anthropic",
        InputTokenCost |-> 7, OutputTokenCost |-> 11,
        CacheCreationTokenCost |-> 3, CacheReadTokenCost |-> 1],
       [Model |-> <<"g", "/", "f">>, Provider |-> "gemini",
        InputTokenCost |-> 7, OutputTokenCost |-> 13,
        CacheCreationTokenCost |-> 3, CacheReadTokenCost |-> 1] >>

defaultModelCatalog == EmbeddedCatalog

RECURSIVE GetModelFrom(_, _, _)
GetModelFrom(c, model, i) ==
    IF i > Len(c) THEN Nil
    ELSE LET info == c[i]
             cmp  == Split(info.Model, Slash)
         IN  IF info.Model = model THEN info
             ELSE IF Len(cmp) > 1 /\ cmp[2] = model THEN info
             ELSE GetModelFrom(c, model, i + 1)

GetModel(c, model) == GetModelFrom(c, model, 1)

\* calculateCost that bills the output rate on the total token count
calculateCostOfTotal(model, u) ==
    model.InputTokenCost * u.InputTokens + model.OutputTokenCost * u.TotalTokens

calculateCost(model, u) ==
    model.InputTokenCost * u.InputTokens + model.OutputTokenCost * u.OutputTokens

\* CalculateCost that also recomputes the total token count
CalculateCostAndTotal(c, model, u) ==
    LET m == GetModel(c, model)
    IN  IF m # Nil
        THEN [u EXCEPT !.Cost = calculateCost(m, u),
                       !.TotalTokens = u.InputTokens + u.OutputTokens]
        ELSE u

\* the usage record after c.CalculateCost(model, usage)
CalculateCost(c, model, u) ==
    LET m == GetModel(c, model)
    IN  IF m # Nil THEN [u EXCEPT !.Cost = calculateCost(m, u)] ELSE u

(***************************************************************************)
(* chat: options.                                                          *)
(***************************************************************************)
\* The option list is the record of the options passed: WithStream is the
\* Streamer or Nil, WithModelCatalog is [catalog |-> c] or Nil.
\* how often NewOptions(o) unmarshals the embedded catalog: defaultModelCatalog
\* does on every call that is given no catalog
Unmarshals(o) == IF o.WithModelCatalog = Nil THEN 1 ELSE 0

NewOptions(o) ==
    [Streamer     |-> o.WithStream,
     ModelCatalog |-> IF o.WithModelCatalog = Nil
                      THEN defaultModelCatalog
                      ELSE o.WithModelCatalog.catalog]

(***************************************************************************)
(* chat: messages, responses, usage.                                       *)
(***************************************************************************)
MessageRoleSystem == "system"
MessageRoleAI == "ai"
MessageRoleHuman == "human"
MessageRoleTool == "tool"

FinishReasonStop == "stop"
FinishReasonMaxTokens == "max_tokens"
FinishReasonToolUse == "tool_use"
FinishReasonSafety == "safety"
FinishReasonError == "error"
FinishReasonUnknown == "unknown"

FinishReasons ==
    { FinishReasonStop, FinishReasonMaxTokens, FinishReasonToolUse,
      FinishReasonSafety, FinishReasonError, FinishReasonUnknown }

TextPart(text) == [Type |-> "text", Text |-> text, DataURL |-> <<>>]
ImagePart(url) == [Type |-> "image", Text |-> <<>>, DataURL |-> url]

NewTextMessage(role, text) ==
    [Role |-> role, Content |-> <<TextPart(text)>>, ToolCall |-> Nil, ToolResponse |-> Nil]

NewToolCallMessage(name, callID, arguments) ==
    [Role |-> MessageRoleAI, Content |-> <<>>,
     ToolCall |-> [ID |-> callID, Name |-> name, Arguments |-> arguments],
     ToolResponse |-> Nil]

NewToolResponseMessage(name, callID, res) ==
    [Role |-> MessageRoleTool, Content |-> <<>>, ToolCall |-> Nil,
     ToolResponse |-> [ID |-> callID, Name |-> name, Result |-> res]]

IsToolCall(m) == m.ToolCall # Nil /\ m.Role = MessageRoleAI
IsToolResponse(m) == m.ToolResponse # Nil /\ m.Role = MessageRoleTool

\* the zero chat.Usage
ZeroUsage == [InputTokens |-> 0, OutputTokens |-> 0, TotalTokens |-> 0, Cost |-> 0]

\* Response.ToolCalls
ToolCalls(r) == SelectSeq(r.Messages, IsToolCall)

PartString(p) == IF p.Type = "text" THEN p.Text ELSE <<>>

RECURSIVE PartStrings(_)
PartStrings(parts) ==
    IF parts = <<>> THEN <<>> ELSE <<PartString(Head(parts))>> \o PartStrings(Tail(parts))

\* Message.ContentString
ContentString(m) == Concat(PartStrings(m.Content))

(***************************************************************************)
(* encoding/json, as far as the adapters use it: Unmarshal of tool-call    *)
(* arguments into a map succeeds on a JSON object.  Arguments are drawn    *)
(* from strings over { and } and x, of which only {} is an object.         *)
(***************************************************************************)
UnmarshalObjectOK(text) == text = <<"{", "}">>

(***************************************************************************)
(* anthropic adapter: request conversion.                                  *)
(***************************************************************************)
SystemPrefix == <<"s", "y", "s", "t", "e", "m", ":", " ">>

\* the blocks of a plain-content message, or the error
RECURSIVE AnthropicConvertParts(_)
AnthropicConvertParts(parts) ==
    IF parts = <<>> THEN [blocks |-> <<>>, err |-> NoErr]
    ELSE LET part == Head(parts)
             rest == AnthropicConvertParts(Tail(parts))
             sp   == SplitDataURL(part.DataURL)
         IN  IF part.Type = "text"
             THEN IF rest.err # NoErr THEN rest
                  ELSE [blocks |-> <<[type |-> "text", text |-> part.Text]>> \o rest.blocks,
                        err |-> NoErr]
             ELSE IF part.Type = "image"
             THEN IF ~IsDataURL(part.DataURL)
                  THEN [blocks |-> <<>>, err |-> "invalid image data URL"]
                  ELSE IF sp.err # NoErr
                  THEN [blocks |-> <<>>, err |-> "split image data URL"]
                  ELSE IF rest.err # NoErr THEN rest
                  ELSE [blocks |-> <<[type |-> "image", mediaType |-> sp.mimeType,
                                      data |-> sp.encodedData]>> \o rest.blocks,
                        err |-> NoErr]
             ELSE rest

AnthropicConvertContentPart(msg) == AnthropicConvertParts(msg.Content)

\* convertMessage: [param, err, panic]; panic is the index-out-of-range of
\* msg.Content[0] on an empty Content
AnthropicConvertMessage(msg) ==
    LET fail(e) == [param |-> Nil, err |-> e, panic |-> FALSE]
        conv == AnthropicConvertContentPart(msg)
        blocks ==
            IF msg.ToolResponse # Nil
            THEN <<[type |-> "tool_result", id |-> msg.ToolResponse.ID,
                    content |-> msg.ToolResponse.Result]>>
            ELSE IF msg.ToolCall # Nil
            THEN <<[type |-> "tool_use", id |-> msg.ToolCall.ID,
                    name |-> msg.ToolCall.Name, input |-> msg.ToolCall.Arguments]>>
            ELSE conv.blocks
    IN  IF msg.ToolResponse = Nil /\ msg.ToolCall # Nil
           /\ ~UnmarshalObjectOK(msg.ToolCall.Arguments)
        THEN fail("unmarshal tool call arguments")
        ELSE IF msg.ToolResponse = Nil /\ msg.ToolCall = Nil /\ conv.err # NoErr
        THEN fail("convert content part")
        ELSE IF Len(blocks) = 0
        THEN fail("no valid content blocks")
        ELSE IF msg.Role = MessageRoleSystem
        THEN IF Len(msg.Content) = 0
             THEN [param |-> Nil, err |-> NoErr, panic |-> TRUE]
             ELSE [param |-> [role |-> "user",
                              blocks |-> <<[type |-> "text",
                                            text |-> SystemPrefix \o msg.Content[1].Text]>>],
                   err |-> NoErr, panic |-> FALSE]
        ELSE IF msg.Role = MessageRoleHuman \/ msg.Role = MessageRoleTool
        THEN [param |-> [role |-> "user", blocks |-> blocks], err |-> NoErr, panic |-> FALSE]
        ELSE IF msg.Role = MessageRoleAI
        THEN [param |-> [role |-> "assistant", blocks |-> blocks],
              err |-> NoErr, panic |-> FALSE]
        ELSE fail("unknown message role")

\* the loop of Generate over r.Messages: stops at the first error or panic
RECURSIVE AnthropicConvertMessages(_)
AnthropicConvertMessages(msgs) ==
    IF msgs = <<>> THEN [messages |-> <<>>, err |-> NoErr, panic |-> FALSE]
    ELSE LET one  == AnthropicConvertMessage(Head(msgs))
             rest == AnthropicConvertMessages(Tail(msgs))
         IN  IF one.panic \/ one.err # NoErr
             THEN [messages |-> <<>>, err |-> one.err, panic |-> one.panic]
             ELSE IF rest.panic \/ rest.err # NoErr THEN rest
             ELSE [messages |-> <<one.param>> \o rest.messages,
                   err |-> NoErr, panic |-> FALSE]

\* an optional field of a vendor request (param.Opt, a pointer): Nil when it
\* is not set
Some(x) == [v |-> x]

\* the max-tokens value convertChatRequest falls back to
AnthropicDefaultMaxTokens == 2048

\* convertChatRequest; MessageNewParams has no field for the penalties
AnthropicConvertChatRequest(r, messages) ==
    [Model         |-> r.Model,
     Messages      |-> messages,
     Tools         |-> IF Len(r.Tools) > 0
                       THEN [i \in 1..Len(r.Tools) |-> [Name |-> r.Tools[i].Name]]
                       ELSE <<>>,
     ToolChoice    |-> IF Len(r.Tools) > 0 /\ r.MustCallTool THEN Some("any") ELSE Nil,
     MaxTokens     |-> IF r.Config.MaxTokens = 0 THEN AnthropicDefaultMaxTokens
                       ELSE r.Config.MaxTokens,
     Temperature   |-> IF r.Config.Temperature # 0 THEN Some(r.Config.Temperature) ELSE Nil,
     TopP          |-> IF r.Config.TopP # 0 THEN Some(r.Config.TopP) ELSE Nil,
     StopSequences |-> IF Len(r.Config.StopWords) > 0 THEN r.Config.StopWords ELSE <<>>]

(***************************************************************************)
(* anthropic adapter: response conversion.                                 *)
(***************************************************************************)
\* anthropic.MessageStopReason values the SDK names, the empty value of an
\* absent field, and a value the SDK does not name
AnthropicStopReasons ==
    { "end_turn", "max_tokens", "stop_sequence", "tool_use", "pause_turn", "refusal",
      "", "new_reason" }


\* AnthropicConvertFinishReason whose default case is stop
AnthropicConvertFinishReasonDefaultStop(reason) ==
    CASE reason = "max_tokens" -> FinishReasonMaxTokens
      [] reason = "tool_use" -> FinishReasonToolUse
      [] OTHER -> FinishReasonStop

AnthropicConvertFinishReason(reason) ==
    CASE reason \in {"end_turn", "stop_sequence"} -> FinishReasonStop
      [] reason = "max_tokens" -> FinishReasonMaxTokens
      [] reason = "tool_use" -> FinishReasonToolUse
      [] OTHER -> FinishReasonUnknown

RECURSIVE AnthropicBlocksToMessages(_)
AnthropicBlocksToMessages(blocks) ==
    IF blocks = <<>> THEN <<>>
    ELSE LET block == Head(blocks)
             rest  == AnthropicBlocksToMessages(Tail(blocks))
         IN  IF block.type = "text"
             THEN <<NewTextMessage(MessageRoleAI, block.text)>> \o rest
             ELSE IF block.type = "tool_use"
             THEN <<NewToolCallMessage(block.name, block.id, block.input)>> \o rest
             ELSE rest

\* messageToResponse: Model is left empty
AnthropicMessageToResponse(message) ==
    [Model        |-> <<>>,
     Messages     |-> AnthropicBlocksToMessages(message.Content),
     FinishReason |-> AnthropicConvertFinishReason(message.StopReason),
     Usage        |-> [ZeroUsage EXCEPT
                          !.InputTokens = message.Usage.InputTokens,
                          !.OutputTokens = message.Usage.OutputTokens,
                          !.TotalTokens = message.Usage.InputTokens
                                          + message.Usage.OutputTokens]]

(***************************************************************************)
(* openai adapter: conversions.                                            *)
(***************************************************************************)
OpenAIConvertChatRole(role) ==
    CASE role = MessageRoleSystem -> "system"
      [] role = MessageRoleHuman -> "user"
      [] role = MessageRoleAI -> "assistant"
      [] role = MessageRoleTool -> "tool"
      [] OTHER -> "user"

OpenAIConvertContentPart(part) ==
    IF part.Type = "image"
    THEN [Type |-> "image_url", Text |-> <<>>, URL |-> part.DataURL]
    ELSE [Type |-> "text", Text |-> part.Text, URL |-> <<>>]

\* convertChatMessage: it has no error result
OpenAIConvertChatMessage(msg) ==
    IF IsToolResponse(msg)
    THEN [Role |-> "tool", Content |-> msg.ToolResponse.Result,
          MultiContent |-> <<>>, ToolCalls |-> <<>>,
          ToolCallID |-> msg.ToolResponse.ID]
    ELSE [Role |-> OpenAIConvertChatRole(msg.Role), Content |-> <<>>,
          MultiContent |-> [i \in 1..Len(msg.Content) |->
                               OpenAIConvertContentPart(msg.Content[i])],
          ToolCalls |-> IF IsToolCall(msg)
                        THEN <<[ID |-> msg.ToolCall.ID, Name |-> msg.ToolCall.Name,
                                Arguments |-> msg.ToolCall.Arguments]>>
                        ELSE <<>>,
          ToolCallID |-> <<>>]

\* convertChatRequest: the Config fields are copied as they are, zero or not
OpenAIConvertChatRequest(r) ==
    [Model            |-> r.Model,
     Messages         |-> [i \in 1..Len(r.Messages) |->
                              OpenAIConvertChatMessage(r.Messages[i])],
     Tools            |-> [i \in 1..Len(r.Tools) |-> [Name |-> r.Tools[i].Name]],
     MaxTokens        |-> r.Config.MaxTokens,
     Temperature      |-> r.Config.Temperature,
     TopP             |-> r.Config.TopP,
     FrequencyPenalty |-> r.Config.FrequencyPenalty,
     PresencePenalty  |-> r.Config.PresencePenalty,
     Stop             |-> r.Config.StopWords,
     ToolChoice       |-> IF r.MustCallTool THEN Some("required") ELSE Nil]

\* openai.FinishReason values the SDK names, the empty value, and another one
OpenAIFinishReasons ==
    { "stop", "length", "function_call", "tool_calls", "content_filter", "null",
      "", "new_reason" }

OpenAIConvertFinishReason(reason) ==
    CASE reason = "stop" -> FinishReasonStop
      [] reason = "length" -> FinishReasonMaxTokens
      [] reason \in {"function_call", "tool_calls"} -> FinishReasonToolUse
      [] reason = "content_filter" -> FinishReasonSafety
      [] reason = "null" -> FinishReasonUnknown
      [] OTHER -> FinishReasonUnknown

chatUsage(u) ==
    [ZeroUsage EXCEPT !.InputTokens = u.PromptTokens,
                      !.OutputTokens = u.CompletionTokens,
                      !.TotalTokens = u.TotalTokens]


\* chatCompletion that hands back the Response it built so far with the error
OpenAIChatCompletionPartial(r, resp) ==
    [resp |-> [Model |-> r.Model, Messages |-> <<>>,
               FinishReason |-> FinishReasonUnknown, Usage |-> chatUsage(resp.Usage)],
     err |-> "no choices"]

\* chatCompletion after CreateChatCompletion answered resp without error
OpenAIChatCompletionResult(r, resp) ==
    IF Len(resp.Choices) = 0
    THEN [resp |-> Nil, err |-> "no choices"]
    ELSE LET choice == resp.Choices[1]
             text   == IF choice.Content # <<>>
                       THEN <<NewTextMessage(MessageRoleAI, choice.Content)>>
                       ELSE <<>>
             tcs    == [i \in 1..Len(choice.ToolCalls) |->
                           NewToolCallMessage(choice.ToolCalls[i].Name,
                                              choice.ToolCalls[i].ID,
                                              choice.ToolCalls[i].Arguments)]
         IN  [resp |-> [Model        |-> r.Model,
                        Messages     |-> text \o tcs,
                        FinishReason |-> OpenAIConvertFinishReason(choice.FinishReason),
                        Usage        |-> chatUsage(resp.Usage)],
              err |-> NoErr]

(***************************************************************************)
(* google adapter: conversions.                                            *)
(***************************************************************************)
GoogleConvertChatRole(role) ==
    CASE role = MessageRoleSystem -> "system"
      [] role = MessageRoleHuman -> "user"
      [] role = MessageRoleAI -> "model"
      [] role = MessageRoleTool -> "tool"
      [] OTHER -> "user"

\* convertChatSchema: json.Unmarshal of the schema into genai.Schema.  A schema
\* is the tag of its shape: "object" fits genai.Schema, "union" (a type given
\* as a list) is a valid JSON Schema that does not.
GoogleConvertChatSchemaOK(schema) == schema # "union"

\* the parts of a plain-content message, or the error
RECURSIVE GoogleConvertParts(_)
GoogleConvertParts(parts) ==
    IF parts = <<>> THEN [parts |-> <<>>, err |-> NoErr]
    ELSE LET part == Head(parts)
             rest == GoogleConvertParts(Tail(parts))
             dec  == DecodeDataURL(part.DataURL)
         IN  IF part.Type = "image" /\ ~IsDataURL(part.DataURL)
             THEN [parts |-> <<>>, err |-> "invalid data URL"]
             ELSE IF rest.err # NoErr THEN rest
             ELSE IF part.Type = "text"
             THEN [parts |-> <<[kind |-> "text", text |-> part.Text]>> \o rest.parts,
                   err |-> NoErr]
             ELSE IF part.Type = "image" /\ dec.err = NoErr
             THEN [parts |-> <<[kind |-> "bytes", data |-> dec.data,
                                mimeType |-> dec.mimeType]>> \o rest.parts,
                   err |-> NoErr]
             ELSE rest

RECURSIVE GoogleConvertChatMessages(_)
GoogleConvertChatMessages(messages) ==
    IF messages = <<>> THEN [contents |-> <<>>, err |-> NoErr]
    ELSE LET msg   == Head(messages)
             rest  == GoogleConvertChatMessages(Tail(messages))
             plain == GoogleConvertParts(msg.Content)
             parts ==
                 IF IsToolResponse(msg)
                 THEN <<[kind |-> "function_response", name |-> msg.ToolResponse.Name,
                         content |-> msg.ToolResponse.Result]>>
                 ELSE IF IsToolCall(msg)
                 THEN <<[kind |-> "function_call", name |-> msg.ToolCall.Name,
                         args |-> msg.ToolCall.Arguments]>>
                 ELSE plain.parts
         IN  IF ~IsToolResponse(msg) /\ IsToolCall(msg)
                /\ ~UnmarshalObjectOK(msg.ToolCall.Arguments)
             THEN [contents |-> <<>>, err |-> "unmarshal tool call arguments"]
             ELSE IF ~IsToolResponse(msg) /\ ~IsToolCall(msg) /\ plain.err # NoErr
             THEN [contents |-> <<>>, err |-> plain.err]
             ELSE IF rest.err # NoErr THEN rest
             ELSE [contents |-> <<[Role |-> GoogleConvertChatRole(msg.Role),
                                   Parts |-> parts]>> \o rest.contents,
                   err |-> NoErr]

\* convertChatConfig that sets every field, zero or not
GoogleConvertChatConfigAlwaysSet(r) ==
    [Temperature      |-> Some(r.Config.Temperature),
     MaxOutputTokens  |-> Some(r.Config.MaxTokens),
     TopP             |-> Some(r.Config.TopP),
     PresencePenalty  |-> Some(r.Config.PresencePenalty),
     FrequencyPenalty |-> Some(r.Config.FrequencyPenalty),
     StopSequences    |-> r.Config.StopWords]

\* convertChatConfig: a field is set only when the Config field is not zero
GoogleConvertChatConfig(r) ==
    [Temperature      |-> IF r.Config.Temperature # 0
                          THEN Some(r.Config.Temperature) ELSE Nil,
     MaxOutputTokens  |-> IF r.Config.MaxTokens # 0 THEN Some(r.Config.MaxTokens) ELSE Nil,
     TopP             |-> IF r.Config.TopP # 0 THEN Some(r.Config.TopP) ELSE Nil,
     PresencePenalty  |-> IF r.Config.PresencePenalty # 0
                          THEN Some(r.Config.PresencePenalty) ELSE Nil,
     FrequencyPenalty |-> IF r.Config.FrequencyPenalty # 0
                          THEN Some(r.Config.FrequencyPenalty) ELSE Nil,
     StopSequences    |-> IF Len(r.Config.StopWords) > 0 THEN r.Config.StopWords ELSE <<>>]

\* convertChatTools: one genai.Tool per tool and the tool config, or the error
\* of the first schema that does not convert
\* convertChatTools whose tool config never names a function-calling mode
GoogleConvertChatToolsNoMode(r) ==
    IF \E i \in 1..Len(r.Tools) : ~GoogleConvertChatSchemaOK(r.Tools[i].InputSchema)
    THEN [tools |-> <<>>, toolConfig |-> Nil, err |-> "convert chat schema"]
    ELSE [tools |-> [i \in 1..Len(r.Tools) |-> [Name |-> r.Tools[i].Name]],
          toolConfig |-> [FunctionCallingConfig |-> Nil],
          err |-> NoErr]

GoogleConvertChatTools(r) ==
    IF \E i \in 1..Len(r.Tools) : ~GoogleConvertChatSchemaOK(r.Tools[i].InputSchema)
    THEN [tools |-> <<>>, toolConfig |-> Nil, err |-> "convert chat schema"]
    ELSE [tools |-> [i \in 1..Len(r.Tools) |-> [Name |-> r.Tools[i].Name]],
          toolConfig |-> [FunctionCallingConfig |->
                            IF r.MustCallTool THEN [Mode |-> "ANY"] ELSE Nil],
          err |-> NoErr]

\* convertChatRequest: [req, err]
GoogleConvertChatRequest(r) ==
    LET conv  == GoogleConvertChatMessages(r.Messages)
        tools == GoogleConvertChatTools(r)
    IN  IF conv.err # NoErr
        THEN [req |-> Nil, err |-> "convert chat messages"]
        ELSE IF Len(r.Tools) > 0 /\ tools.err # NoErr
        THEN [req |-> Nil, err |-> "convert chat tools"]
        ELSE IF r.ResponseSchema # Nil /\ ~GoogleConvertChatSchemaOK(r.ResponseSchema.shape)
        THEN [req |-> Nil, err |-> "convert chat schema"]
        ELSE [req |-> [Contents   |-> conv.contents,
                       Config     |-> GoogleConvertChatConfig(r),
                       Tools      |-> IF Len(r.Tools) > 0 THEN tools.tools ELSE <<>>,
                       ToolConfig |-> IF Len(r.Tools) > 0 THEN tools.toolConfig ELSE Nil],
              err |-> NoErr]

\* genai.FinishReason values the SDK names, the empty value, and another one
GoogleFinishReasons ==
    { "FINISH_REASON_UNSPECIFIED", "STOP", "MAX_TOKENS", "SAFETY", "RECITATION",
      "LANGUAGE", "OTHER", "BLOCKLIST", "PROHIBITED_CONTENT", "SPII",
      "MALFORMED_FUNCTION_CALL", "IMAGE_SAFETY", "", "NEW_REASON" }

GoogleConvertFinishReason(reason) ==
    CASE reason = "STOP" -> FinishReasonStop
      [] reason = "MAX_TOKENS" -> FinishReasonMaxTokens
      [] reason \in {"SAFETY", "IMAGE_SAFETY", "PROHIBITED_CONTENT", "RECITATION",
                     "BLOCKLIST", "SPII"} -> FinishReasonSafety
      [] reason = "MALFORMED_FUNCTION_CALL" -> FinishReasonError
      [] reason \in {"OTHER", "FINISH_REASON_UNSPECIFIED"} -> FinishReasonUnknown
      [] OTHER -> FinishReasonUnknown

\* updateUsage: metadata is Nil or [PromptTokenCount, CandidatesTokenCount,
\* TotalTokenCount], the first two Nil or a count
updateUsage(u, metadata) ==
    IF metadata = Nil THEN u
    ELSE [u EXCEPT
            !.InputTokens = IF metadata.PromptTokenCount.set
                            THEN metadata.PromptTokenCount.n ELSE @,
            !.OutputTokens = IF metadata.CandidatesTokenCount.set
                             THEN metadata.CandidatesTokenCount.n ELSE @,
            !.TotalTokens = metadata.TotalTokenCount]

\* a *int32 field of the usage metadata
Count(n) == [set |-> TRUE, n |-> n]
NoCount == [set |-> FALSE, n |-> 0]

\* result.Text() and result.FunctionCalls(): the text parts and the function
\* calls of the first candidate
RECURSIVE GoogleText(_)
GoogleText(parts) ==
    IF parts = <<>> THEN <<>>
    ELSE (IF Head(parts).kind = "text" THEN Head(parts).text ELSE <<>>)
         \o GoogleText(Tail(parts))

IsFunctionCall(part) == part.kind = "function_call"
GoogleFunctionCalls(parts) == SelectSeq(parts, IsFunctionCall)

convertGenerateContentResponse(res, model) ==
    LET has   == Len(res.Candidates) > 0 /\ res.Candidates[1].Content # Nil
        parts == IF has THEN res.Candidates[1].Content.Parts ELSE <<>>
        text  == GoogleText(parts)
        fcs   == GoogleFunctionCalls(parts)
        msgs  == (IF text # <<>> THEN <<NewTextMessage(MessageRoleAI, text)>> ELSE <<>>)
                 \o [i \in 1..Len(fcs) |->
                        NewToolCallMessage(fcs[i].name, fcs[i].id, fcs[i].args)]
    IN  [Model        |-> model,
         Messages     |-> IF has THEN msgs ELSE <<>>,
         FinishReason |-> IF ~has THEN FinishReasonUnknown
                          ELSE IF Len(fcs) > 0 THEN FinishReasonToolUse
                          ELSE GoogleConvertFinishReason(res.Candidates[1].FinishReason),
         Usage        |-> updateUsage(ZeroUsage, res.UsageMetadata)]

(***************************************************************************)
(* The inputs: requests, options, and what the vendors may answer.         *)
(***************************************************************************)
\* model names asked for: one per catalog entry, the bare and the namespaced
\* name of the gemini entry, and a name no catalog holds
Queries == { <<"o">>, <<"f">>, <<"g", "/", "f">>, <<"c">>, <<"l">>, <<"z">> }

MsgHi == NewTextMessage(MessageRoleHuman, <<"h">>)
MsgEmpty ==
    [Role |-> MessageRoleHuman, Content |-> <<>>, ToolCall |-> Nil, ToolResponse |-> Nil]
MsgBadImage ==
    [Role |-> MessageRoleHuman, Content |-> <<ImagePart(<<"x">>)>>,
     ToolCall |-> Nil, ToolResponse |-> Nil]
MsgBadArgs == NewToolCallMessage(<<"t">>, <<"1">>, <<"x">>)
MsgSystemResponse ==
    [Role |-> MessageRoleSystem, Content |-> <<>>, ToolCall |-> Nil,
     ToolResponse |-> [ID |-> <<"1">>, Name |-> <<"t">>, Result |-> <<"r">>]]

MessageLists ==
    { <<MsgHi>>, <<MsgEmpty>>, <<MsgBadImage>>, <<MsgBadArgs>>, <<MsgSystemResponse>> }

Tools == { [Name |-> <<"t">>, InputSchema |-> sch] : sch \in {"object", "union"} }

RECURSIVE SeqsUpTo(_, _)
SeqsUpTo(S, n) ==
    IF n = 0 THEN { <<>> }
    ELSE SeqsUpTo(S, n - 1)
         \cup { Append(q, x) : q \in { t \in SeqsUpTo(S, n - 1) : Len(t) = n - 1 }, x \in S }

\* the zero chat.ModelConfig
ZeroConfig ==
    [MaxTokens |-> 0, Temperature |-> 0, TopP |-> 0, PresencePenalty |-> 0,
     FrequencyPenalty |-> 0, StopWords |-> <<>>]

Requests ==
    [Model : Queries, Config : {ZeroConfig}, Messages : MessageLists,
     Tools : SeqsUpTo(Tools, MaxTools), MustCallTool : {FALSE},
     ResponseSchema : {Nil}]

\* a Streamer is the number of the invocation at which it reports failure,
\* 0 for one that never does
Streamers == { [failAt |-> k] : k \in 0..MaxEvents }

OptionLists ==
    [WithStream : {Nil} \cup Streamers,
     WithModelCatalog : {Nil, [catalog |-> InjectedCatalog]}]

Texts == { <<>>, <<"a">>, <<"b">> }

AnthropicEvents ==
    { [type |-> "message_start", deltaType |-> "", text |-> <<>>, tokens |-> 1],
      [type |-> "message_delta", deltaType |-> "", text |-> <<>>, tokens |-> 1],
      [type |-> "message_delta", deltaType |-> "", text |-> <<>>, tokens |-> 2],
      [type |-> "message_stop", deltaType |-> "", text |-> <<>>, tokens |-> 0],
      [type |-> "content_block_delta", deltaType |-> "input_json_delta",
       text |-> <<"a">>, tokens |-> 0] }
    \cup { [type |-> "content_block_delta", deltaType |-> "text_delta",
            text |-> t, tokens |-> 0] : t \in Texts }

ToolUseBlock == [type |-> "tool_use", id |-> <<"1">>, name |-> <<"t">>, input |-> <<"{", "}">>]
TextBlock(t) == [type |-> "text", text |-> t]

\* messages with no block, one or two text blocks, a text block with no
\* text, and a tool-use block alone or after a text block
AnthropicMessages ==
    [Content : { <<>>, <<TextBlock(<<"a">>)>>, <<ToolUseBlock>>,
                 <<TextBlock(<<"a">>), ToolUseBlock>>,
                 <<TextBlock(<<"a">>), TextBlock(<<"b">>)>>, <<TextBlock(<<>>)>> },
     StopReason : AnthropicStopReasons,
     Usage : { [InputTokens |-> 1, OutputTokens |-> 2] }]

OpenAIUsage == [PromptTokens |-> 1, CompletionTokens |-> 2, TotalTokens |-> 3]

OpenAIEvents ==
    { [Usage |-> Nil, Choices |-> <<[Content |-> t]>>] : t \in Texts }
    \cup { [Usage |-> OpenAIUsage, Choices |-> <<>>],
           [Usage |-> Nil, Choices |-> <<>>],
           [Usage |-> OpenAIUsage, Choices |-> <<[Content |-> <<"a">>]>>] }

OpenAIToolCall == [ID |-> <<"1">>, Name |-> <<"t">>, Arguments |-> <<"{", "}">>]

OpenAIResponses ==
    [Choices : { <<>> }
               \cup { <<ch>> : ch \in [Content : { <<>>, <<"a">> },
                                       ToolCalls : { <<>>, <<OpenAIToolCall>> },
                                       FinishReason : OpenAIFinishReasons] },
     Usage : { OpenAIUsage }]

GoogleUsages ==
    { Nil, [PromptTokenCount |-> Count(1), CandidatesTokenCount |-> Count(2),
            TotalTokenCount |-> 3] }

GoogleTextPart(t) == [kind |-> "text", text |-> t]
GoogleCallPart ==
    [kind |-> "function_call", name |-> <<"t">>, id |-> <<"1">>, args |-> <<"{", "}">>]

\* stream events: no candidate, a candidate without content, and candidates
\* with one or two text parts, with no finish reason, STOP or MAX_TOKENS
GoogleEvents ==
    { [UsageMetadata |-> u, Candidates |-> <<>>] : u \in GoogleUsages }
    \cup { [UsageMetadata |-> Nil,
            Candidates |-> <<[Content |-> Nil, FinishReason |-> "SAFETY"]>>] }
    \cup { [UsageMetadata |-> Nil,
            Candidates |-> <<[Content |-> [Parts |-> ps], FinishReason |-> r]>>] :
              ps \in { <<GoogleTextPart(<<"a">>)>>, <<GoogleTextPart(<<>>)>>,
                       <<GoogleTextPart(<<"a">>), GoogleTextPart(<<"b">>)>> },
              r \in { "", "STOP", "MAX_TOKENS" } }

GoogleResponses ==
    [UsageMetadata : GoogleUsages,
     Candidates : { <<>> }
                  \cup { <<[Content |-> Nil, FinishReason |-> r]>> :
                            r \in GoogleFinishReasons }
                  \cup { <<[Content |-> [Parts |-> ps], FinishReason |-> r]>> :
                            ps \in { <<>>, <<GoogleTextPart(<<"a">>)>>, <<GoogleCallPart>>,
                                     <<GoogleTextPart(<<"a">>), GoogleCallPart>> },
                            r \in GoogleFinishReasons }]

\* errors a vendor call or stream may report: the context's error only once
\* the context is cancelled
Canceled == "context canceled"
VendorErrors(done) == IF done THEN { "vendor error", Canceled } ELSE { "vendor error" }

(***************************************************************************)
(* The state after construction: a request and its options, nothing run.   *)
(***************************************************************************)
Init ==
    /\ req \in Requests
    /\ opts \in OptionLists
    /\ pc = "start"
    /\ adapter = "none"
    /\ calls = <<>>
    /\ path = "none"
    /\ vendorCalls = 0
    /\ streamOpen = FALSE
    /\ opened = 0
    /\ ctxDone = FALSE
    /\ cancelledMid = FALSE
    /\ events = <<>>
    /\ delivered = <<>>
    /\ log = <<>>
    /\ streamErr = FALSE
    /\ content = <<>>
    /\ usage = ZeroUsage
    /\ finishReason = "FINISH_REASON_UNSPECIFIED"
    /\ vreq = Nil
    /\ vresp = Nil
    /\ adapterResult = Nil
    /\ result = Nil
    /\ other = Nil
    /\ parses = 0
    /\ arg = Nil
    /\ ret = Nil

(***************************************************************************)
(* Shared pieces of the actions.                                           *)
(***************************************************************************)
\* the arguments the dispatched adapter was called with
callReq == calls[Len(calls)].req
callOpts == calls[Len(calls)].opts

\* the Streamer reports failure at its n-th invocation
StreamerFails(streamer, n) == streamer.failAt = n

\* some invocation of the Streamer so far reported failure
StreamerFailed ==
    /\ opts.WithStream # Nil
    /\ opts.WithStream.failAt \in 1..Len(delivered)

EventEntry(e) == [kind |-> "event", event |-> e, chunk |-> Nil]
ChunkEntry(c) == [kind |-> "chunk", event |-> Nil, chunk |-> c]

RECURSIVE ChunkEntries(_)
ChunkEntries(chunks) ==
    IF chunks = <<>> THEN <<>> ELSE <<ChunkEntry(Head(chunks))>> \o ChunkEntries(Tail(chunks))

\* an adapter's Generate returns res to the router
AdapterReturns(res) ==
    /\ adapterResult' = res
    /\ pc' = "return"

(***************************************************************************)
(* The router: gengo.Generate.                                             *)
(***************************************************************************)

\* Route with a default case that falls to the openai adapter
RouteDefaultOpenAI(provider) ==
    CASE provider = "anthropic" -> "anthropic"
      [] provider = "gemini" -> "google"
      [] OTHER -> "openai"

\* the adapter the switch on model.Provider selects, "none" when no case matches
Route(provider) ==
    CASE provider = "anthropic" -> "anthropic"
      [] provider = "gemini" -> "google"
      [] provider = "openai" -> "openai"
      [] OTHER -> "none"


\* Dispatch that calls the adapter without the caller's options
DispatchWithoutOptions(to, request, options) ==
    [adapter |-> to, req |-> request,
     opts |-> [WithStream |-> Nil, WithModelCatalog |-> Nil]]

\* the call the router makes: anthropic.Generate(ctx, req, opts...) and alike
Dispatch(to, request, options) == [adapter |-> to, req |-> request, opts |-> options]

Generate ==
    /\ pc = "start"
    /\ parses' = parses + Unmarshals(opts)
    /\ LET o     == NewOptions(opts)
           model == GetModel(o.ModelCatalog, req.Model)
       IN  IF model = Nil
           THEN /\ result' = [resp |-> Nil, err |-> "model not found"]
                /\ pc' = "done"
                /\ UNCHANGED <<adapter, calls>>
           ELSE IF Route(model.Provider) = "none"
           THEN /\ result' = [resp |-> Nil, err |-> "provider not found"]
                /\ pc' = "done"
                /\ UNCHANGED <<adapter, calls>>
           ELSE /\ adapter' = Route(model.Provider)
                /\ calls' = Append(calls, Dispatch(Route(model.Provider), req, opts))
                /\ pc' = "adapter"
                /\ UNCHANGED result
    /\ UNCHANGED <<other, arg, ret, req, opts, vreq, path, vendorCalls, streamOpen, opened, ctxDone,
                   cancelledMid, events, delivered, log, streamErr, content, usage,
                   finishReason, vresp, adapterResult>>

\* the router returns what the adapter returned
RouterResult(res) == res

Return ==
    /\ pc = "return"
    /\ result' = RouterResult(adapterResult)
    /\ pc' = "done"
    /\ UNCHANGED <<other, arg, ret, parses, req, opts, vreq, adapter, calls, path, vendorCalls, streamOpen, opened,
                   ctxDone, cancelledMid, events, delivered, log, streamErr, content,
                   usage, finishReason, vresp, adapterResult>>

\* the caller cancels the context while the stream is being consumed
Cancel ==
    /\ streamOpen
    /\ ~ctxDone
    /\ ctxDone' = TRUE
    /\ cancelledMid' = TRUE
    /\ UNCHANGED <<other, arg, ret, parses, req, opts, vreq, pc, adapter, calls, path, vendorCalls, streamOpen, opened,
                   events, delivered, log, streamErr, content, usage, finishReason,
                   vresp, adapterResult, result>>

(***************************************************************************)
(* The anthropic adapter.                                                  *)
(***************************************************************************)

\* UseStream that does not look at the tools
UseStreamIgnoringTools(streamer, tools) == streamer # Nil

\* the dispatch test of an adapter: stream when a Streamer is given and the
\* vendor request has no tools
UseStream(streamer, tools) == streamer # Nil /\ Len(tools) = 0


\* handleStreaming without the deferred Close
AnthropicNoDeferClose(open) == open

\* defer stream.Close(): the stream's state once handleStreaming has returned
AnthropicDeferClose(open) == FALSE


\* AnthropicChunk that hands over the accumulated text
AnthropicChunkCumulative(acc, text) == [Type |-> "text", Content |-> acc]

\* the chunk handed to the Streamer for a text delta, given the accumulator
AnthropicChunk(acc, text) == [Type |-> "text", Content |-> text]

AnthropicGenerate ==
    /\ pc = "adapter"
    /\ adapter = "anthropic"
    /\ parses' = parses + Unmarshals(callOpts)
    /\ LET opt    == NewOptions(callOpts)
           conv   == AnthropicConvertMessages(callReq.Messages)
           params == AnthropicConvertChatRequest(callReq, conv.messages)
       IN  IF conv.panic
           THEN /\ pc' = "panic"
                /\ UNCHANGED <<path, vendorCalls, vreq, streamOpen, opened, adapterResult>>
           ELSE IF conv.err # NoErr
           THEN /\ AdapterReturns([resp |-> Nil, err |-> "failed to convert message"])
                /\ UNCHANGED <<path, vendorCalls, vreq, streamOpen, opened>>
           ELSE IF UseStream(opt.Streamer, params.Tools)
           THEN /\ path' = "stream"
                /\ vendorCalls' = vendorCalls + 1
                /\ vreq' = params
                /\ streamOpen' = TRUE
                /\ opened' = opened + 1
                /\ pc' = "a_next"
                /\ UNCHANGED adapterResult
           ELSE /\ path' = "blocking"
                /\ vendorCalls' = vendorCalls + 1
                /\ vreq' = params
                /\ pc' = "a_new"
                /\ UNCHANGED <<streamOpen, opened, adapterResult>>
    /\ UNCHANGED <<other, arg, ret, req, opts, adapter, calls, ctxDone, cancelledMid, events, delivered,
                   log, streamErr, content, usage, finishReason, vresp, result>>

\* client.Messages.New answers: an error, or a message
AnthropicMessagesNew ==
    /\ pc = "a_new"
    /\ \/ /\ \E e \in VendorErrors(ctxDone) :
                AdapterReturns([resp |-> Nil, err |-> e])
          /\ UNCHANGED vresp
       \/ \E message \in AnthropicMessages :
            LET opt  == NewOptions(callOpts)
                resp == [AnthropicMessageToResponse(message) EXCEPT !.Model = callReq.Model]
            IN  /\ vresp' = message
                /\ AdapterReturns(
                     [resp |-> [resp EXCEPT !.Usage =
                                   CalculateCost(opt.ModelCatalog, callReq.Model, resp.Usage)],
                      err |-> NoErr])
    /\ UNCHANGED <<other, arg, ret, parses, req, opts, vreq, adapter, calls, path, vendorCalls, streamOpen, opened,
                   ctxDone, cancelledMid, events, delivered, log, streamErr, content,
                   usage, finishReason, result>>

\* one turn of the loop of handleStreaming: stream.Next() yields an event
AnthropicStreamEvent ==
    /\ pc = "a_next"
    /\ Len(events) < MaxEvents
    /\ \E e \in AnthropicEvents :
         LET opt    == NewOptions(callOpts)
             isText == e.type = "content_block_delta" /\ e.deltaType = "text_delta"
             failed == isText /\ StreamerFails(opt.Streamer, Len(delivered) + 1)
             chunk  == AnthropicChunk(content \o e.text, e.text)
         IN  /\ events' = Append(events, e)
             /\ content' = IF isText THEN content \o e.text ELSE content
             /\ delivered' = IF isText THEN Append(delivered, chunk) ELSE delivered
             /\ log' = log \o <<EventEntry(e)>>
                           \o (IF isText THEN <<ChunkEntry(chunk)>> ELSE <<>>)
             /\ usage' = IF e.type = "message_start"
                         THEN [usage EXCEPT !.InputTokens = e.tokens]
                         ELSE IF e.type = "message_delta"
                         THEN [usage EXCEPT !.OutputTokens = @ + e.tokens]
                         ELSE usage
             /\ IF failed
                THEN /\ AdapterReturns([resp |-> Nil, err |-> "streaming error: stream"])
                     /\ streamOpen' = AnthropicDeferClose(streamOpen)
                ELSE UNCHANGED <<pc, adapterResult, streamOpen>>
    /\ UNCHANGED <<other, arg, ret, parses, req, opts, vreq, adapter, calls, path, vendorCalls, opened, ctxDone,
                   cancelledMid, streamErr, finishReason, vresp, result>>

\* stream.Next() is false and stream.Err() is nil: the stream is exhausted
AnthropicStreamEnd ==
    /\ pc = "a_next"
    /\ LET opt  == NewOptions(callOpts)
           u    == [usage EXCEPT !.TotalTokens = usage.InputTokens + usage.OutputTokens]
           resp == [Model        |-> <<>>,
                    Messages     |-> <<NewTextMessage(MessageRoleAI, content)>>,
                    FinishReason |-> "stop",
                    Usage        |-> CalculateCost(opt.ModelCatalog, callReq.Model, u)]
       IN  /\ usage' = u
           /\ AdapterReturns([resp |-> resp, err |-> NoErr])
    /\ streamOpen' = AnthropicDeferClose(streamOpen)
    /\ UNCHANGED <<other, arg, ret, parses, req, opts, vreq, adapter, calls, path, vendorCalls, opened, ctxDone,
                   cancelledMid, events, delivered, log, streamErr, content,
                   finishReason, vresp, result>>

\* stream.Next() is false and stream.Err() is an error
AnthropicStreamError ==
    /\ pc = "a_next"
    /\ \E e \in VendorErrors(ctxDone) :
         AdapterReturns([resp |-> Nil, err |-> e])
    /\ streamErr' = TRUE
    /\ streamOpen' = AnthropicDeferClose(streamOpen)
    /\ UNCHANGED <<other, arg, ret, parses, req, opts, vreq, adapter, calls, path, vendorCalls, opened, ctxDone,
                   cancelledMid, events, delivered, log, content, usage,
                   finishReason, vresp, result>>

(***************************************************************************)
(* The openai adapter.                                                     *)
(***************************************************************************)
\* defer stream.Close(): the stream's state once chatCompletionStream has returned
OpenAIDeferClose(open) == FALSE

\* the chunk handed to the Streamer for a content delta, given the accumulator
OpenAIChunk(acc, c) == [Type |-> "text", Content |-> c]

\* Generate up to the vendor request: CreateChatCompletionStream answers a
\* stream or an error; the blocking call is left pending
OpenAIGenerate ==
    /\ pc = "adapter"
    /\ adapter = "openai"
    /\ parses' = parses + Unmarshals(callOpts)
    /\ LET opt  == NewOptions(callOpts)
           creq == OpenAIConvertChatRequest(callReq)
       IN  IF UseStream(opt.Streamer, creq.Tools)
           THEN /\ path' = "stream"
                /\ vendorCalls' = vendorCalls + 1
                /\ vreq' = creq
                /\ \/ /\ streamOpen' = TRUE
                      /\ opened' = opened + 1
                      /\ pc' = "o_select"
                      /\ UNCHANGED adapterResult
                   \/ /\ AdapterReturns([resp |-> Nil, err |-> "vendor error"])
                      /\ UNCHANGED <<streamOpen, opened>>
           ELSE /\ path' = "blocking"
                /\ vendorCalls' = vendorCalls + 1
                /\ vreq' = creq
                /\ pc' = "o_create"
                /\ UNCHANGED <<streamOpen, opened, adapterResult>>
    /\ UNCHANGED <<other, arg, ret, req, opts, adapter, calls, ctxDone, cancelledMid, events, delivered,
                   log, streamErr, content, usage, finishReason, vresp, result>>

\* chatCompletion: CreateChatCompletion answers an error or a response
OpenAIChatCompletion ==
    /\ pc = "o_create"
    /\ \/ /\ \E e \in VendorErrors(ctxDone) :
                AdapterReturns([resp |-> Nil, err |-> e])
          /\ UNCHANGED vresp
       \/ \E resp \in OpenAIResponses :
            LET opt == NewOptions(callOpts)
                res == OpenAIChatCompletionResult(callReq, resp)
            IN  /\ vresp' = resp
                /\ IF res.err # NoErr
                   THEN AdapterReturns(res)
                   ELSE AdapterReturns(
                          [resp |-> [res.resp EXCEPT !.Usage =
                                        CalculateCost(opt.ModelCatalog, callReq.Model,
                                                      res.resp.Usage)],
                           err |-> NoErr])
    /\ UNCHANGED <<other, arg, ret, parses, req, opts, vreq, adapter, calls, path, vendorCalls, streamOpen, opened,
                   ctxDone, cancelledMid, events, delivered, log, streamErr, content,
                   usage, finishReason, result>>

\* the select of the loop: ctx.Done() is taken when the context is cancelled,
\* the default branch otherwise
OpenAISelect ==
    /\ pc = "o_select"
    /\ IF ctxDone
       THEN /\ AdapterReturns([resp |-> Nil, err |-> Canceled])
            /\ streamOpen' = OpenAIDeferClose(streamOpen)
       ELSE /\ pc' = "o_recv"
            /\ UNCHANGED <<adapterResult, streamOpen>>
    /\ UNCHANGED <<other, arg, ret, parses, req, opts, vreq, adapter, calls, path, vendorCalls, opened, ctxDone,
                   cancelledMid, events, delivered, log, streamErr, content, usage,
                   finishReason, vresp, result>>

\* stream.Recv() answers a response
OpenAIRecvEvent ==
    /\ pc = "o_recv"
    /\ Len(events) < MaxEvents
    /\ \E e \in OpenAIEvents :
         LET opt    == NewOptions(callOpts)
             c      == IF Len(e.Choices) = 0 THEN <<>> ELSE e.Choices[1].Content
             isText == Len(e.Choices) # 0 /\ c # <<>>
             failed == isText /\ StreamerFails(opt.Streamer, Len(delivered) + 1)
             chunk  == OpenAIChunk(content \o c, c)
         IN  /\ events' = Append(events, e)
             /\ usage' = IF e.Usage # Nil THEN chatUsage(e.Usage) ELSE usage
             /\ content' = IF isText THEN content \o c ELSE content
             /\ delivered' = IF isText THEN Append(delivered, chunk) ELSE delivered
             /\ log' = log \o <<EventEntry(e)>>
                           \o (IF isText THEN <<ChunkEntry(chunk)>> ELSE <<>>)
             /\ IF failed
                THEN /\ AdapterReturns([resp |-> Nil, err |-> "chat completion stream: stream"])
                     /\ streamOpen' = OpenAIDeferClose(streamOpen)
                ELSE /\ pc' = "o_select"
                     /\ UNCHANGED <<adapterResult, streamOpen>>
    /\ UNCHANGED <<other, arg, ret, parses, req, opts, vreq, adapter, calls, path, vendorCalls, opened, ctxDone,
                   cancelledMid, streamErr, finishReason, vresp, result>>

\* stream.Recv() answers io.EOF
OpenAIRecvEOF ==
    /\ pc = "o_recv"
    /\ LET opt  == NewOptions(callOpts)
           resp == [Model        |-> callReq.Model,
                    Messages     |-> <<NewTextMessage(MessageRoleAI, content)>>,
                    FinishReason |-> "stop",
                    Usage        |-> CalculateCost(opt.ModelCatalog, callReq.Model, usage)]
       IN  AdapterReturns([resp |-> resp, err |-> NoErr])
    /\ streamOpen' = OpenAIDeferClose(streamOpen)
    /\ UNCHANGED <<other, arg, ret, parses, req, opts, vreq, adapter, calls, path, vendorCalls, opened, ctxDone,
                   cancelledMid, events, delivered, log, streamErr, content, usage,
                   finishReason, vresp, result>>

\* stream.Recv() answers another error
OpenAIRecvError ==
    /\ pc = "o_recv"
    /\ \E e \in VendorErrors(ctxDone) :
         AdapterReturns([resp |-> Nil, err |-> e])
    /\ streamErr' = TRUE
    /\ streamOpen' = OpenAIDeferClose(streamOpen)
    /\ UNCHANGED <<other, arg, ret, parses, req, opts, vreq, adapter, calls, path, vendorCalls, opened, ctxDone,
                   cancelledMid, events, delivered, log, content, usage,
                   finishReason, vresp, result>>

(***************************************************************************)
(* The google adapter.                                                     *)
(***************************************************************************)
\* leaving the range over GenerateContentStream, by break or by return, ends
\* the iterator, which releases the stream
GoogleRangeExit(open) == FALSE


\* GoogleChunk that hands over the accumulated text
GoogleChunkCumulative(acc, c) == [Type |-> "text", Content |-> acc]

\* the chunk handed to the Streamer for a text part, given the accumulator
GoogleChunk(acc, c) == [Type |-> "text", Content |-> c]

\* what the Streamer's answer does to the loop: the call's result is dropped,
\* so the loop goes on whether it failed or not
GoogleStopsOnStreamerError == FALSE

\* the inner loop over the parts of the first candidate: the accumulator and
\* the chunks handed to the Streamer, in order
RECURSIVE GoogleParts(_, _)
GoogleParts(acc, parts) ==
    IF parts = <<>> THEN [content |-> acc, chunks |-> <<>>]
    ELSE LET c == Head(parts).text
         IN  IF Head(parts).kind = "text" /\ c # <<>>
             THEN LET rest == GoogleParts(acc \o c, Tail(parts))
                  IN  [content |-> rest.content,
                       chunks |-> <<GoogleChunk(acc \o c, c)>> \o rest.chunks]
             ELSE GoogleParts(acc, Tail(parts))

\* Generate up to the vendor request: genai.NewClient may fail; the request
\* conversion of generateContent and generateContentStream may fail
GoogleGenerate ==
    /\ pc = "adapter"
    /\ adapter = "google"
    /\ parses' = parses + Unmarshals(callOpts)
    /\ \/ /\ AdapterReturns([resp |-> Nil, err |-> "new client"])
          /\ UNCHANGED <<path, vendorCalls, vreq, streamOpen, opened>>
       \/ LET opt  == NewOptions(callOpts)
              conv == GoogleConvertChatRequest(callReq)
          IN  IF UseStream(opt.Streamer, callReq.Tools)
              THEN /\ path' = "stream"
                   /\ IF conv.err # NoErr
                      THEN /\ AdapterReturns([resp |-> Nil, err |-> conv.err])
                           /\ UNCHANGED <<vendorCalls, vreq, streamOpen, opened>>
                      ELSE /\ vendorCalls' = vendorCalls + 1
                           /\ vreq' = conv.req
                           /\ streamOpen' = TRUE
                           /\ opened' = opened + 1
                           /\ pc' = "g_iter"
                           /\ UNCHANGED adapterResult
              ELSE /\ path' = "blocking"
                   /\ IF conv.err # NoErr
                      THEN /\ AdapterReturns([resp |-> Nil, err |-> conv.err])
                           /\ UNCHANGED <<vendorCalls, vreq, streamOpen, opened>>
                      ELSE /\ vendorCalls' = vendorCalls + 1
                           /\ vreq' = conv.req
                           /\ pc' = "g_call"
                           /\ UNCHANGED <<streamOpen, opened, adapterResult>>
    /\ UNCHANGED <<other, arg, ret, req, opts, adapter, calls, ctxDone, cancelledMid, events, delivered,
                   log, streamErr, content, usage, finishReason, vresp, result>>

\* generateContent: Models.GenerateContent answers an error or a response
GoogleGenerateContent ==
    /\ pc = "g_call"
    /\ \/ /\ \E e \in VendorErrors(ctxDone) :
                AdapterReturns([resp |-> Nil, err |-> e])
          /\ UNCHANGED vresp
       \/ \E res \in GoogleResponses :
            LET opt  == NewOptions(callOpts)
                resp == convertGenerateContentResponse(res, callReq.Model)
            IN  /\ vresp' = res
                /\ AdapterReturns(
                     [resp |-> [resp EXCEPT !.Usage =
                                   CalculateCost(opt.ModelCatalog, callReq.Model,
                                                 resp.Usage)],
                      err |-> NoErr])
    /\ UNCHANGED <<other, arg, ret, parses, req, opts, vreq, adapter, calls, path, vendorCalls, streamOpen, opened,
                   ctxDone, cancelledMid, events, delivered, log, streamErr, content,
                   usage, finishReason, result>>

\* one turn of the range loop: the iterator yields a response
GoogleStreamEvent ==
    /\ pc = "g_iter"
    /\ Len(events) < MaxEvents
    /\ \E e \in GoogleEvents :
         LET opt    == NewOptions(callOpts)
             skip   == Len(e.Candidates) = 0 \/ e.Candidates[1].Content = Nil
             parts  == IF skip THEN <<>> ELSE e.Candidates[1].Content.Parts
             loop   == GoogleParts(content, parts)
             failed == \E n \in (Len(delivered) + 1)..(Len(delivered) + Len(loop.chunks)) :
                          StreamerFails(opt.Streamer, n)
         IN  /\ events' = Append(events, e)
             /\ usage' = updateUsage(usage, e.UsageMetadata)
             /\ content' = loop.content
             /\ delivered' = delivered \o loop.chunks
             /\ log' = log \o <<EventEntry(e)>> \o ChunkEntries(loop.chunks)
             /\ finishReason' = IF skip THEN finishReason ELSE e.Candidates[1].FinishReason
             /\ IF failed /\ GoogleStopsOnStreamerError
                THEN /\ AdapterReturns([resp |-> Nil, err |-> "generate content stream: stream"])
                     /\ streamOpen' = GoogleRangeExit(streamOpen)
                ELSE UNCHANGED <<pc, adapterResult, streamOpen>>
    /\ UNCHANGED <<other, arg, ret, parses, req, opts, vreq, adapter, calls, path, vendorCalls, opened, ctxDone,
                   cancelledMid, streamErr, vresp, result>>

\* the iterator ends, or yields io.EOF: the loop is left and the Response built
GoogleStreamEnd ==
    /\ pc = "g_iter"
    /\ LET opt  == NewOptions(callOpts)
           resp == [Model        |-> callReq.Model,
                    Messages     |-> <<NewTextMessage(MessageRoleAI, content)>>,
                    FinishReason |-> GoogleConvertFinishReason(finishReason),
                    Usage        |-> CalculateCost(opt.ModelCatalog, callReq.Model, usage)]
       IN  AdapterReturns([resp |-> resp, err |-> NoErr])
    /\ streamOpen' = GoogleRangeExit(streamOpen)
    /\ UNCHANGED <<other, arg, ret, parses, req, opts, vreq, adapter, calls, path, vendorCalls, opened, ctxDone,
                   cancelledMid, events, delivered, log, streamErr, content, usage,
                   finishReason, vresp, result>>

\* the iterator yields an error other than io.EOF
GoogleStreamError ==
    /\ pc = "g_iter"
    /\ \E e \in VendorErrors(ctxDone) :
         AdapterReturns([resp |-> Nil, err |-> e])
    /\ streamErr' = TRUE
    /\ streamOpen' = GoogleRangeExit(streamOpen)
    /\ UNCHANGED <<other, arg, ret, parses, req, opts, vreq, adapter, calls, path, vendorCalls, opened, ctxDone,
                   cancelledMid, events, delivered, log, content, usage,
                   finishReason, vresp, result>>

(***************************************************************************)
(* The specification.                                                      *)
(***************************************************************************)
Next ==
    \/ Generate
    \/ Return
    \/ Cancel
    \/ AnthropicGenerate
    \/ AnthropicMessagesNew
    \/ AnthropicStreamEvent
    \/ AnthropicStreamEnd
    \/ AnthropicStreamError
    \/ OpenAIGenerate
    \/ OpenAIChatCompletion
    \/ OpenAISelect
    \/ OpenAIRecvEvent
    \/ OpenAIRecvEOF
    \/ OpenAIRecvError
    \/ GoogleGenerate
    \/ GoogleGenerateContent
    \/ GoogleStreamEvent
    \/ GoogleStreamEnd
    \/ GoogleStreamError

Spec == Init /\ [][Next]_vars

(***************************************************************************)
(* Request conversion on its own: Generate up to the vendor request, for   *)
(* requests that vary the Config, MustCallTool, the tools and the kind of  *)
(* message, with the embedded catalog.                                     *)
(***************************************************************************)
MsgImage ==
    [Role |-> MessageRoleHuman,
     Content |-> <<ImagePart(EncodeDataURL(<<"i">>, <<0, 0, 0>>))>>,
     ToolCall |-> Nil, ToolResponse |-> Nil]
\* an image whose data URL has the prefix but not the ;base64, separator
MsgNoSeparatorImage ==
    [Role |-> MessageRoleHuman, Content |-> <<ImagePart(DataPrefix \o <<"i">>)>>,
     ToolCall |-> Nil, ToolResponse |-> Nil]
\* an image whose payload is not base64
MsgUndecodableImage ==
    [Role |-> MessageRoleHuman,
     Content |-> <<ImagePart(DataPrefix \o <<"i">> \o Base64Sep \o <<"!">>)>>,
     ToolCall |-> Nil, ToolResponse |-> Nil]
\* a text next to an image whose payload is not base64
MsgTextAndUndecodableImage ==
    [Role |-> MessageRoleHuman,
     Content |-> <<TextPart(<<"h">>),
                   ImagePart(DataPrefix \o <<"i">> \o Base64Sep \o <<"!">>)>>,
     ToolCall |-> Nil, ToolResponse |-> Nil]
\* a role that is none of system, human, ai and tool
MsgUnknownRole ==
    [Role |-> "other", Content |-> <<TextPart(<<"h">>)>>,
     ToolCall |-> Nil, ToolResponse |-> Nil]
\* a content part that is neither text nor image
MsgFilePart ==
    [Role |-> MessageRoleHuman,
     Content |-> <<[Type |-> "file", Text |-> <<>>, DataURL |-> <<>>]>>,
     ToolCall |-> Nil, ToolResponse |-> Nil]
MsgToolCall == NewToolCallMessage(<<"t">>, <<"1">>, <<"{", "}">>)
MsgToolResponse == NewToolResponseMessage(<<"t">>, <<"1">>, <<"r">>)

ConvMessageLists ==
    { <<m>> : m \in { MsgHi, MsgEmpty, MsgBadImage, MsgNoSeparatorImage,
                      MsgUndecodableImage, MsgTextAndUndecodableImage, MsgImage,
                      MsgUnknownRole, MsgFilePart, MsgBadArgs, MsgToolCall,
                      MsgToolResponse } }

Configs ==
    [MaxTokens : {0, 100}, Temperature : {0, 7}, TopP : {0, 9},
     PresencePenalty : {0, 5}, FrequencyPenalty : {0, 4},
     StopWords : { <<>>, <<"s", "w">> }]

ConvRequests ==
    [Model : { <<"o">>, <<"c">>, <<"f">> }, Config : Configs,
     Messages : ConvMessageLists, Tools : SeqsUpTo(Tools, MaxTools),
     MustCallTool : BOOLEAN, ResponseSchema : {Nil}]

ConvOptionLists == [WithStream : {Nil, [failAt |-> 0]}, WithModelCatalog : {Nil}]

ConvInit ==
    /\ req \in ConvRequests
    /\ opts \in ConvOptionLists
    /\ pc = "start"
    /\ adapter = "none"
    /\ calls = <<>>
    /\ path = "none"
    /\ vendorCalls = 0
    /\ streamOpen = FALSE
    /\ opened = 0
    /\ ctxDone = FALSE
    /\ cancelledMid = FALSE
    /\ events = <<>>
    /\ delivered = <<>>
    /\ log = <<>>
    /\ streamErr = FALSE
    /\ content = <<>>
    /\ usage = ZeroUsage
    /\ finishReason = "FINISH_REASON_UNSPECIFIED"
    /\ vreq = Nil
    /\ vresp = Nil
    /\ adapterResult = Nil
    /\ result = Nil
    /\ other = Nil
    /\ parses = 0
    /\ arg = Nil
    /\ ret = Nil

ConvNext ==
    \/ Generate
    \/ AnthropicGenerate
    \/ OpenAIGenerate
    \/ GoogleGenerate
    \/ Return

ConvSpec == ConvInit /\ [][ConvNext]_vars

(***************************************************************************)
(* Catalog lookup on its own: Generate with an injected catalog of one or  *)
(* two entries whose identifiers have one to MaxSegments segments, asked   *)
(* for each such name.  The entries' provider has no adapter, so Generate  *)
(* ends at the lookup: "model not found" or "provider not found".          *)
(***************************************************************************)
RECURSIVE JoinSlash(_)
JoinSlash(segs) ==
    IF Len(segs) = 1 THEN Head(segs)
    ELSE Head(segs) \o Slash \o JoinSlash(Tail(segs))

LookupSegments == { <<"a">>, <<"b">> }

LookupNames ==
    { JoinSlash(segs) : segs \in SeqsUpTo(LookupSegments, MaxSegments) \ { <<>> } }

LookupEntry(name) ==
    [Model |-> name, Provider |-> "mistral", InputTokenCost |-> 1, OutputTokenCost |-> 1]

LookupCatalogs ==
    { <<LookupEntry(n)>> : n \in LookupNames }
    \cup { <<LookupEntry(n), LookupEntry(m)>> : n \in LookupNames, m \in LookupNames }

LookupInit ==
    /\ req \in [Model : LookupNames, Config : {ZeroConfig},
                Messages : { <<NewTextMessage(MessageRoleHuman, <<"a">>)>> },
                Tools : { <<>> }, MustCallTool : {FALSE}, ResponseSchema : {Nil}]
    /\ opts \in [WithStream : {Nil},
                 WithModelCatalog : { [catalog |-> c] : c \in LookupCatalogs }]
    /\ pc = "start"
    /\ adapter = "none"
    /\ calls = <<>>
    /\ path = "none"
    /\ vendorCalls = 0
    /\ streamOpen = FALSE
    /\ opened = 0
    /\ ctxDone = FALSE
    /\ cancelledMid = FALSE
    /\ events = <<>>
    /\ delivered = <<>>
    /\ log = <<>>
    /\ streamErr = FALSE
    /\ content = <<>>
    /\ usage = ZeroUsage
    /\ finishReason = "FINISH_REASON_UNSPECIFIED"
    /\ vreq = Nil
    /\ vresp = Nil
    /\ adapterResult = Nil
    /\ result = Nil
    /\ other = Nil
    /\ parses = 0
    /\ arg = Nil
    /\ ret = Nil

LookupNext == Generate

LookupSpec == LookupInit /\ [][LookupNext]_vars

(***************************************************************************)
(* Direct calls: a caller that does not go through the router calls an     *)
(* adapter's Generate, ModelCatalog.CalculateCost, or the data-URL         *)
(* functions of package chat.  pc tells which call is made; arg holds the  *)
(* arguments of a call of package chat and ret what it returned.           *)
(***************************************************************************)
\* usage records a caller may hand to CalculateCost
DirectUsages ==
    [InputTokens : {0, 3}, OutputTokens : {0, 5}, ReasoningTokens : {0, 7},
     CacheCreationTokens : {0, 1}, CachedTokens : {0, 2}, TotalTokens : {0, 8},
     Cost : {0}]

\* MIME types: none, a plain one, one with a parameter, one that starts
\* with "data:", and one that holds the text ";base64,"
DirectMimeTypes ==
    { <<>>, <<"i">>, <<"i", ";", "c", "=", "u">>, DataPrefix \o <<"i">>,
      <<"i">> \o Base64Sep \o <<"x">> }

DirectData ==
    { <<>>, <<0>>, <<255>>, <<0, 0>>, <<77, 97>>, <<77, 97, 110>>,
      <<255, 254, 253, 252>> }

\* strings handed to IsDataURL, SplitDataURL and DecodeDataURL: data URLs
\* of the above, and strings that lack the prefix, the separator or a
\* base64 payload, or have the separator twice
DirectStrings ==
    { EncodeDataURL(m, d) : m \in DirectMimeTypes, d \in DirectData }
    \cup { <<>>, <<"h", "t", "t", "p", ":", "x">>,
           DataPrefix \o <<"i", ",", "Q", "Q", "=", "=">>,
           DataPrefix, Base64Sep, DataPrefix \o Base64Sep,
           <<"x">> \o DataPrefix \o <<"i">> \o Base64Sep \o <<"Q", "Q", "=", "=">>,
           <<"i">> \o Base64Sep \o DataPrefix,
           DataPrefix \o <<"i">> \o Base64Sep \o <<"!">>,
           DataPrefix \o <<"i">> \o Base64Sep \o <<"Q", "Q">>,
           DataPrefix \o <<"i">> \o Base64Sep \o <<"Q", "Q", "=", "=">> \o Base64Sep }

DirectInit ==
    /\ req \in [Model : { <<"o">>, <<"f">>, <<"z">> }, Config : {ZeroConfig},
                Messages : { <<MsgHi>> }, Tools : SeqsUpTo(Tools, MaxTools),
                MustCallTool : {FALSE}, ResponseSchema : {Nil}]
    /\ opts \in OptionLists
    /\ \/ /\ pc = "adapter"
          /\ adapter \in { "anthropic", "openai", "google" }
          /\ calls = <<Dispatch(adapter, req, opts)>>
          /\ arg = Nil
       \/ /\ pc = "cost"
          /\ adapter = "none"
          /\ calls = <<>>
          /\ arg \in [usage : DirectUsages]
       \/ /\ pc = "encode"
          /\ adapter = "none"
          /\ calls = <<>>
          /\ arg \in [mimeType : DirectMimeTypes, data : DirectData]
       \/ /\ pc = "inspect"
          /\ adapter = "none"
          /\ calls = <<>>
          /\ arg \in [dataURL : DirectStrings]
    /\ path = "none"
    /\ vendorCalls = 0
    /\ streamOpen = FALSE
    /\ opened = 0
    /\ ctxDone = FALSE
    /\ cancelledMid = FALSE
    /\ events = <<>>
    /\ delivered = <<>>
    /\ log = <<>>
    /\ streamErr = FALSE
    /\ content = <<>>
    /\ usage = ZeroUsage
    /\ finishReason = "FINISH_REASON_UNSPECIFIED"
    /\ vreq = Nil
    /\ vresp = Nil
    /\ adapterResult = Nil
    /\ result = Nil
    /\ other = Nil
    /\ parses = 0
    /\ ret = Nil

\* c.CalculateCost(req.Model, &usage) on the catalog of the options: what
\* it returns and the usage record afterwards
AnnotateCost ==
    /\ pc = "cost"
    /\ LET c == NewOptions(opts).ModelCatalog
       IN  ret' = [ok    |-> GetModel(c, req.Model) # Nil,
                   usage |-> CalculateCost(c, req.Model, arg.usage)]
    /\ pc' = "done"
    /\ UNCHANGED <<other, arg, parses, req, opts, vreq, adapter, calls, path, vendorCalls,
                   streamOpen, opened, ctxDone, cancelledMid, events, delivered, log,
                   streamErr, content, usage, finishReason, vresp, adapterResult, result>>

\* DecodeDataURL(EncodeDataURL(mimeType, data))
EncodeThenDecode ==
    /\ pc = "encode"
    /\ LET url == EncodeDataURL(arg.mimeType, arg.data)
       IN  ret' = [dataURL |-> url, decoded |-> DecodeDataURL(url)]
    /\ pc' = "done"
    /\ UNCHANGED <<other, arg, parses, req, opts, vreq, adapter, calls, path, vendorCalls,
                   streamOpen, opened, ctxDone, cancelledMid, events, delivered, log,
                   streamErr, content, usage, finishReason, vresp, adapterResult, result>>

\* IsDataURL, SplitDataURL and DecodeDataURL of one string
InspectDataURL ==
    /\ pc = "inspect"
    /\ ret' = [is      |-> IsDataURL(arg.dataURL),
               split   |-> SplitDataURL(arg.dataURL),
               decoded |-> DecodeDataURL(arg.dataURL)]
    /\ pc' = "done"
    /\ UNCHANGED <<other, arg, parses, req, opts, vreq, adapter, calls, path, vendorCalls,
                   streamOpen, opened, ctxDone, cancelledMid, events, delivered, log,
                   streamErr, content, usage, finishReason, vresp, adapterResult, result>>

DirectNext ==
    \/ AnnotateCost
    \/ EncodeThenDecode
    \/ InspectDataURL
    \/ Cancel
    \/ AnthropicGenerate
    \/ AnthropicMessagesNew
    \/ AnthropicStreamEvent
    \/ AnthropicStreamEnd
    \/ AnthropicStreamError
    \/ OpenAIGenerate
    \/ OpenAIChatCompletion
    \/ OpenAISelect
    \/ OpenAIRecvEvent
    \/ OpenAIRecvEOF
    \/ OpenAIRecvError
    \/ GoogleGenerate
    \/ GoogleGenerateContent
    \/ GoogleStreamEvent
    \/ GoogleStreamEnd
    \/ GoogleStreamError

DirectSpec == DirectInit /\ [][DirectNext]_vars

(***************************************************************************)
(* Two concurrent invocations of Generate that share one catalog.  The     *)
(* one that runs has its locals in the variables; the locals of the one    *)
(* that does not are kept in other.  Switch lets the other one run, at any *)
(* point, so that every interleaving of the two invocations' steps is a    *)
(* behaviour.  Both are routed to the openai adapter; one blocks or         *)
(* streams, the other streams to a callback that fails on its second       *)
(* chunk.  The vendor answers every call and every stream ends by EOF.     *)
(***************************************************************************)
\* the catalog both invocations are given
ConcCatalog ==
    << [Model |-> <<"o">>, Provider |-> "openai",
        InputTokenCost |-> 1, OutputTokenCost |-> 2,
        CacheCreationTokenCost |-> 3, CacheReadTokenCost |-> 1],
       [Model |-> <<"p">>, Provider |-> "openai",
        InputTokenCost |-> 5, OutputTokenCost |-> 7,
        CacheCreationTokenCost |-> 3, CacheReadTokenCost |-> 1] >>

\* the locals of an invocation, with the usage accumulator left out
LocalsButUsage ==
    [req |-> req, opts |-> opts, pc |-> pc, adapter |-> adapter, calls |-> calls,
     path |-> path, vendorCalls |-> vendorCalls, streamOpen |-> streamOpen,
     opened |-> opened, ctxDone |-> ctxDone, cancelledMid |-> cancelledMid,
     events |-> events, delivered |-> delivered, log |-> log, streamErr |-> streamErr,
     content |-> content, usage |-> ZeroUsage, finishReason |-> finishReason,
     vreq |-> vreq, vresp |-> vresp, adapterResult |-> adapterResult, result |-> result]

\* what belongs to one invocation: its arguments, its context, and the
\* locals of Generate and of the adapter's functions (the stream, the
\* content and usage accumulators, the results)
Locals ==
    [req |-> req, opts |-> opts, pc |-> pc, adapter |-> adapter, calls |-> calls,
     path |-> path, vendorCalls |-> vendorCalls, streamOpen |-> streamOpen,
     opened |-> opened, ctxDone |-> ctxDone, cancelledMid |-> cancelledMid,
     events |-> events, delivered |-> delivered, log |-> log, streamErr |-> streamErr,
     content |-> content, usage |-> usage, finishReason |-> finishReason,
     vreq |-> vreq, vresp |-> vresp, adapterResult |-> adapterResult, result |-> result]

ConcInit ==
    /\ req \in [Model : { <<"o">> }, Config : {ZeroConfig}, Messages : { <<MsgHi>> },
                Tools : { <<>> }, MustCallTool : {FALSE}, ResponseSchema : {Nil}]
    /\ opts \in [WithStream : {Nil, [failAt |-> 0]},
                 WithModelCatalog : { [catalog |-> ConcCatalog] }]
    /\ pc = "start"
    /\ adapter = "none"
    /\ calls = <<>>
    /\ path = "none"
    /\ vendorCalls = 0
    /\ streamOpen = FALSE
    /\ opened = 0
    /\ ctxDone = FALSE
    /\ cancelledMid = FALSE
    /\ events = <<>>
    /\ delivered = <<>>
    /\ log = <<>>
    /\ streamErr = FALSE
    /\ content = <<>>
    /\ usage = ZeroUsage
    /\ finishReason = "FINISH_REASON_UNSPECIFIED"
    /\ vreq = Nil
    /\ vresp = Nil
    /\ adapterResult = Nil
    /\ result = Nil
    /\ other = [req |-> [req EXCEPT !.Model = <<"p">>],
                opts |-> [WithStream |-> [failAt |-> 2],
                          WithModelCatalog |-> [catalog |-> ConcCatalog]],
                pc |-> "start", adapter |-> "none", calls |-> <<>>, path |-> "none",
                vendorCalls |-> 0, streamOpen |-> FALSE, opened |-> 0,
                ctxDone |-> FALSE, cancelledMid |-> FALSE, events |-> <<>>,
                delivered |-> <<>>, log |-> <<>>, streamErr |-> FALSE,
                content |-> <<>>, usage |-> ZeroUsage,
                finishReason |-> "FINISH_REASON_UNSPECIFIED", vreq |-> Nil,
                vresp |-> Nil, adapterResult |-> Nil, result |-> Nil]
    /\ parses = 0
    /\ arg = Nil
    /\ ret = Nil

\* the scheduler lets the other invocation run
Switch ==
    /\ other # Nil
    /\ other' = Locals
    /\ req' = other.req
    /\ opts' = other.opts
    /\ pc' = other.pc
    /\ adapter' = other.adapter
    /\ calls' = other.calls
    /\ path' = other.path
    /\ vendorCalls' = other.vendorCalls
    /\ streamOpen' = other.streamOpen
    /\ opened' = other.opened
    /\ ctxDone' = other.ctxDone
    /\ cancelledMid' = other.cancelledMid
    /\ events' = other.events
    /\ delivered' = other.delivered
    /\ log' = other.log
    /\ streamErr' = other.streamErr
    /\ content' = other.content
    /\ usage' = other.usage
    /\ finishReason' = other.finishReason
    /\ vreq' = other.vreq
    /\ vresp' = other.vresp
    /\ adapterResult' = other.adapterResult
    /\ result' = other.result
    /\ UNCHANGED <<parses, arg, ret>>

ConcNext ==
    \/ Switch
    \/ Generate
    \/ Return
    \/ OpenAIGenerate
    \/ OpenAIChatCompletion
    \/ OpenAISelect
    \/ OpenAIRecvEvent
    \/ OpenAIRecvEOF

ConcSpec == ConcInit /\ [][ConcNext]_vars

(***************************************************************************)
(* Properties.  What they share: the catalog entry the router's lookup     *)
(* yields, the providers that have an adapter, the shape of a returned     *)
(* pair, and where an invocation stands.                                   *)
(***************************************************************************)
RouterModel == GetModel(NewOptions(opts).ModelCatalog, req.Model)

SupportedProviders == {"anthropic", "gemini", "openai"}

AdapterOf(p) ==
    CASE p = "anthropic" -> "anthropic"
      [] p = "gemini" -> "google"
      [] p = "openai" -> "openai"

AdapterSteps(a) ==
    CASE a = "anthropic" -> {"a_next", "a_new"}
      [] a = "openai" -> {"o_create", "o_select", "o_recv"}
      [] a = "google" -> {"g_call", "g_iter"}

ExactlyOneOf(res) ==
    \/ res.resp # Nil /\ res.err = NoErr
    \/ res.resp = Nil /\ res.err # NoErr

AdapterReturned == adapterResult # Nil

StreamSucceeded == AdapterReturned /\ path = "stream" /\ adapterResult.err = NoErr

RECURSIVE ChunkContents(_)
ChunkContents(chunks) ==
    IF chunks = <<>> THEN <<>>
    ELSE <<Head(chunks).Content>> \o ChunkContents(Tail(chunks))

\* C1: when the requested model is not in the catalog in use, or its entry
\* names a provider that is none of anthropic, gemini and openai, top-level
\* Generate goes straight from its start to its return, the return is a nil
\* Response with the resolution error, and no adapter is invoked: no call is
\* recorded, no adapter step is taken, no vendor is called.
C1_ResolutionErrorsPrecedeDispatch ==
    (RouterModel = Nil \/ RouterModel.Provider \notin SupportedProviders) =>
        /\ pc \in {"start", "done"}
        /\ adapter = "none"
        /\ calls = <<>>
        /\ path = "none"
        /\ vendorCalls = 0
        /\ adapterResult = Nil
        /\ pc = "done" =>
              /\ result.resp = Nil
              /\ result.err = IF RouterModel = Nil THEN "model not found"
                              ELSE "provider not found"

\* the router has returned for a model the catalog lists under a provider
\* that has no adapter
C1_Witness ==
    /\ pc = "done"
    /\ RouterModel # Nil
    /\ RouterModel.Provider = "mistral"
    /\ result.err = "provider not found"

\* C2: when the requested model resolves to a provider p among anthropic,
\* gemini and openai, then once top-level Generate has dispatched there is
\* exactly one adapter call, it is to the adapter of p, with the request and
\* the options Generate was given; only that adapter's steps are taken; what
\* Generate returns is what the adapter returned; and the cost in a returned
\* Response is priced by the catalog entry the router resolved.
C2_DispatchPassesThrough ==
    (pc # "start" /\ RouterModel # Nil /\ RouterModel.Provider \in SupportedProviders) =>
        /\ calls = << [adapter |-> AdapterOf(RouterModel.Provider),
                       req |-> req, opts |-> opts] >>
        /\ adapter = AdapterOf(RouterModel.Provider)
        /\ pc \in {"adapter", "panic", "return", "done"} \cup AdapterSteps(adapter)
        /\ pc = "done" => result = adapterResult
        /\ (pc = "done" /\ result.err = NoErr) =>
              result.resp.Usage.Cost = calculateCost(RouterModel, result.resp.Usage)

\* the router has returned the Response of the anthropic adapter, to which an
\* injected catalog routed a model the embedded catalog gives to openai
C2_Witness ==
    /\ pc = "done"
    /\ opts.WithModelCatalog # Nil
    /\ req.Model = <<"o">>
    /\ adapter = "anthropic"
    /\ result.err = NoErr
    /\ result.resp.Usage.Cost > 0

\* C3: once an adapter has chosen its path, the path is the streaming one
\* exactly when a Streamer was supplied and the request has no tools; a
\* stream is opened and the Streamer is invoked on the streaming path only;
\* with at least one tool no stream is opened and the Streamer is never
\* invoked, and at most one vendor call is made.
C3_StreamIffStreamerAndNoTools ==
    /\ path # "none" =>
          (path = "stream" <=> (opts.WithStream # Nil /\ Len(req.Tools) = 0))
    /\ (opened > 0 \/ delivered # <<>> \/ events # <<>>) => path = "stream"
    /\ vresp # Nil => path = "blocking"
    /\ Len(req.Tools) > 0 => (opened = 0 /\ delivered = <<>> /\ ~streamOpen)
    /\ vendorCalls <= 1

\* a request with a tool and a Streamer was answered by the blocking call
C3_Witness ==
    /\ pc = "done"
    /\ opts.WithStream # Nil
    /\ Len(req.Tools) > 0
    /\ path = "blocking"
    /\ vresp # Nil
    /\ result.err = NoErr

\* C4: when a streaming invocation returns a Response, the Response has one
\* message, and the text of that message is the concatenation, in delivery
\* order, of the contents of the chunks handed to the Streamer.
C4_ChunksConcatenateToMessage ==
    StreamSucceeded =>
        /\ Len(adapterResult.resp.Messages) = 1
        /\ ContentString(adapterResult.resp.Messages[1]) = Concat(ChunkContents(delivered))

\* a streaming invocation returned a Response after two different chunks
C4_Witness ==
    /\ pc = "done"
    /\ StreamSucceeded
    /\ Len(delivered) = 2
    /\ delivered[1].Content # delivered[2].Content
    /\ ContentString(result.resp.Messages[1]) = delivered[1].Content \o delivered[2].Content

\* the text deltas an event carries, per adapter: anthropic, the text of a
\* text_delta content block delta; openai, the content of the first choice's
\* delta when it is not empty; google, the non-empty text parts of the first
\* candidate, in part order
RECURSIVE NonEmptyTexts(_)
NonEmptyTexts(parts) ==
    IF parts = <<>> THEN <<>>
    ELSE (IF Head(parts).kind = "text" /\ Head(parts).text # <<>>
          THEN <<Head(parts).text>> ELSE <<>>)
         \o NonEmptyTexts(Tail(parts))

EventDeltas(a, e) ==
    CASE a = "anthropic" ->
            IF e.type = "content_block_delta" /\ e.deltaType = "text_delta"
            THEN <<e.text>> ELSE <<>>
      [] a = "openai" ->
            IF Len(e.Choices) > 0 /\ e.Choices[1].Content # <<>>
            THEN <<e.Choices[1].Content>> ELSE <<>>
      [] a = "google" ->
            IF Len(e.Candidates) > 0 /\ e.Candidates[1].Content # Nil
            THEN NonEmptyTexts(e.Candidates[1].Content.Parts) ELSE <<>>

\* the text delta of an event taken as a whole: its deltas joined
EventDelta(a, e) == Concat(EventDeltas(a, e))

RECURSIVE TextChunkEntries(_)
TextChunkEntries(texts) ==
    IF texts = <<>> THEN <<>>
    ELSE <<ChunkEntry([Type |-> "text", Content |-> Head(texts)])>>
         \o TextChunkEntries(Tail(texts))

\* the deltas of an event when the event counts as one delta
WholeDelta(a, e) == IF EventDeltas(a, e) = <<>> THEN <<>> ELSE <<EventDelta(a, e)>>

\* the order of consumption and delivery when every event is followed, before
\* the next event, by one chunk for the event (whole) or one per delta of it
RECURSIVE InterleavedLog(_, _, _)
InterleavedLog(a, evs, whole) ==
    IF evs = <<>> THEN <<>>
    ELSE <<EventEntry(Head(evs))>>
         \o TextChunkEntries(IF whole THEN WholeDelta(a, Head(evs))
                             ELSE EventDeltas(a, Head(evs)))
         \o InterleavedLog(a, Tail(evs), whole)

\* C5, as stated: every text-delta event is followed, before the next event
\* is consumed, by exactly one invocation of the Streamer with a chunk of
\* type "text" holding that event's delta, and no other invocation happens.
C5_OneChunkPerEvent ==
    path = "stream" => log = InterleavedLog(adapter, events, TRUE)

\* C5, amended: the Streamer is invoked exactly once per text delta an event
\* carries (an event of the google stream carries one per non-empty text
\* part), with a chunk of type "text" whose content is that delta only, in
\* the order of the deltas, and all of an event's invocations happen before
\* the next event is consumed; the chunks delivered are those of the log.
C5_OneChunkPerDelta ==
    path = "stream" =>
        /\ log = InterleavedLog(adapter, events, FALSE)
        /\ ChunkEntries(delivered) = SelectSeq(log, LAMBDA x : x.kind = "chunk")

\* a google event with two text parts was consumed and two chunks delivered
C5_Witness ==
    /\ adapter = "google"
    /\ Len(events) = 1
    /\ Len(EventDeltas("google", events[1])) = 2
    /\ Len(delivered) = 2
    /\ delivered[1].Content = <<"a">>
    /\ delivered[2].Content = <<"b">>

\* C6, as stated: on the streaming path, once the Streamer has reported
\* failure or the vendor stream an error, the invocation has returned a nil
\* Response with an error, and no chunk was delivered after the failure.
C6_StreamFailureNoResponse ==
    (path = "stream" /\ (StreamerFailed \/ streamErr)) =>
        /\ AdapterReturned
        /\ adapterResult.resp = Nil
        /\ adapterResult.err # NoErr
        /\ StreamerFailed => Len(delivered) = opts.WithStream.failAt

\* C7, as stated, for the runs that return: a streaming invocation whose
\* context was cancelled while the stream was open returns no Response.
C7_CancelledStreamNoResponse ==
    (AdapterReturned /\ cancelledMid) =>
        /\ adapterResult.resp = Nil
        /\ adapterResult.err # NoErr

\* C8: once an adapter has returned, the vendor stream it opened is closed,
\* whatever the exit: end of stream, stream error, Streamer failure,
\* cancellation; and an invocation opens at most one stream.
C8_StreamClosedOnReturn ==
    /\ AdapterReturned => ~streamOpen
    /\ streamOpen => pc \in {"a_next", "o_select", "o_recv", "g_iter"}
    /\ opened <= 1

\* the anthropic adapter returned on a Streamer failure after opening a stream
C8_Witness ==
    /\ pc = "done"
    /\ adapter = "anthropic"
    /\ opened = 1
    /\ StreamerFailed
    /\ result.resp = Nil
    /\ ~streamOpen

\* C9: what an adapter returns and what the router returns is either a
\* Response with a nil error or a nil Response with an error, never both
\* and never neither.
C9_ResponseXorError ==
    /\ AdapterReturned => ExactlyOneOf(adapterResult)
    /\ result # Nil => ExactlyOneOf(result)
    /\ pc = "done" => result # Nil
    /\ pc = "return" => AdapterReturned

\* the openai blocking call was answered without choices: an error, no Response
C9_Witness ==
    /\ pc = "done"
    /\ adapter = "openai"
    /\ vresp # Nil
    /\ Len(vresp.Choices) = 0
    /\ result.resp = Nil
    /\ result.err = "no choices"

\* the vendor finish reasons each adapter gives a meaning other than unknown
AnthropicNamedReasons == {"end_turn", "stop_sequence", "max_tokens", "tool_use"}
OpenAINamedReasons == {"stop", "length", "function_call", "tool_calls", "content_filter"}
GoogleNamedReasons ==
    {"STOP", "MAX_TOKENS", "SAFETY", "IMAGE_SAFETY", "PROHIBITED_CONTENT", "RECITATION",
     "BLOCKLIST", "SPII", "MALFORMED_FUNCTION_CALL"}

\* the vendor finish reason a returned Response was converted from, Nil when
\* the Response's FinishReason does not come from the conversion
ConvertedReason ==
    IF ~AdapterReturned \/ adapterResult.err # NoErr THEN Nil
    ELSE IF path = "blocking" /\ adapter = "anthropic" THEN [v |-> vresp.StopReason]
    ELSE IF path = "blocking" /\ adapter = "openai" THEN [v |-> vresp.Choices[1].FinishReason]
    ELSE IF path = "blocking" /\ adapter = "google"
    THEN IF /\ Len(vresp.Candidates) > 0
            /\ vresp.Candidates[1].Content # Nil
            /\ GoogleFunctionCalls(vresp.Candidates[1].Content.Parts) = <<>>
         THEN [v |-> vresp.Candidates[1].FinishReason]
         ELSE Nil
    ELSE IF path = "stream" /\ adapter = "google" THEN [v |-> finishReason]
    ELSE Nil

NamedReasons(a) ==
    CASE a = "anthropic" -> AnthropicNamedReasons
      [] a = "openai" -> OpenAINamedReasons
      [] a = "google" -> GoogleNamedReasons

\* C10: every returned Response carries one of the unified finish reasons,
\* and when it was converted from a vendor value the adapter does not name
\* (an unknown, empty or unspecified one) it is unknown, hence not stop.
C10_FinishReasonTotal ==
    /\ (AdapterReturned /\ adapterResult.err = NoErr) =>
          adapterResult.resp.FinishReason \in FinishReasons
    /\ (ConvertedReason # Nil /\ ConvertedReason.v \notin NamedReasons(adapter)) =>
          adapterResult.resp.FinishReason = FinishReasonUnknown

\* the anthropic blocking call answered with an empty stop reason
C10_Witness ==
    /\ pc = "done"
    /\ adapter = "anthropic"
    /\ path = "blocking"
    /\ vresp # Nil
    /\ vresp.StopReason = ""
    /\ result.err = NoErr
    /\ result.resp.FinishReason = FinishReasonUnknown

\* C11, as stated: a streaming invocation that ends by exhaustion of the
\* stream returns a Response with exactly one message and FinishReason stop,
\* whatever finish reasons the vendor events carried.
C11_StreamFinishReasonStop ==
    StreamSucceeded =>
        /\ Len(adapterResult.resp.Messages) = 1
        /\ adapterResult.resp.FinishReason = FinishReasonStop

\* C12, as stated: whenever a returned Response holds at least one tool-call
\* message, its FinishReason is tool_use, whatever finish reason the vendor
\* reported next to the tool invocations.
C12_ToolCallsFinishToolUse ==
    (AdapterReturned /\ adapterResult.err = NoErr
        /\ ToolCalls(adapterResult.resp) # <<>>) =>
        adapterResult.resp.FinishReason = FinishReasonToolUse

\* the token counts an event reports, Nil when it reports none: anthropic
\* reports input tokens at message_start and a running output figure in
\* message_delta; openai and google report both in a usage record
ReportedOutput(a, e) ==
    CASE a = "anthropic" -> IF e.type = "message_delta" THEN [n |-> e.tokens] ELSE Nil
      [] a = "openai" -> IF e.Usage # Nil THEN [n |-> e.Usage.CompletionTokens] ELSE Nil
      [] a = "google" ->
            IF e.UsageMetadata # Nil /\ e.UsageMetadata.CandidatesTokenCount.set
            THEN [n |-> e.UsageMetadata.CandidatesTokenCount.n] ELSE Nil

ReportedInput(a, e) ==
    CASE a = "anthropic" -> IF e.type = "message_start" THEN [n |-> e.tokens] ELSE Nil
      [] a = "openai" -> IF e.Usage # Nil THEN [n |-> e.Usage.PromptTokens] ELSE Nil
      [] a = "google" ->
            IF e.UsageMetadata # Nil /\ e.UsageMetadata.PromptTokenCount.set
            THEN [n |-> e.UsageMetadata.PromptTokenCount.n] ELSE Nil

\* the vendor's final figure: the last one reported, 0 when none was
RECURSIVE FinalOutput(_, _)
FinalOutput(a, evs) ==
    IF evs = <<>> THEN 0
    ELSE IF ReportedOutput(a, evs[Len(evs)]) # Nil THEN ReportedOutput(a, evs[Len(evs)]).n
    ELSE FinalOutput(a, SubSeq(evs, 1, Len(evs) - 1))

RECURSIVE FinalInput(_, _)
FinalInput(a, evs) ==
    IF evs = <<>> THEN 0
    ELSE IF ReportedInput(a, evs[Len(evs)]) # Nil THEN ReportedInput(a, evs[Len(evs)]).n
    ELSE FinalInput(a, SubSeq(evs, 1, Len(evs) - 1))

\* C13, as stated: the Usage of a Response returned by a streaming
\* invocation counts no reported token twice: OutputTokens is the vendor's
\* final output figure, whether reported once or as a running figure over
\* several events, and InputTokens is the count reported at stream start.
C13_StreamUsageNoDoubleCount ==
    StreamSucceeded =>
        /\ adapterResult.resp.Usage.OutputTokens = FinalOutput(adapter, events)
        /\ adapterResult.resp.Usage.InputTokens = FinalInput(adapter, events)

\* what the input-validation rules speak of: an image part whose data URL
\* does not decode (no data: prefix, no ;base64, separator, or a payload
\* that is not base64), and a role outside the four roles
HasMalformedImage(r) ==
    \E i \in 1..Len(r.Messages) : \E j \in 1..Len(r.Messages[i].Content) :
        /\ r.Messages[i].Content[j].Type = "image"
        /\ DecodeDataURL(r.Messages[i].Content[j].DataURL).err # NoErr

HasUnknownRole(r) ==
    \E i \in 1..Len(r.Messages) :
        r.Messages[i].Role \notin
            {MessageRoleSystem, MessageRoleHuman, MessageRoleAI, MessageRoleTool}

\* C14, as stated: for a request with a malformed image data URL or a
\* message of unknown role, the adapter issues no vendor request (neither
\* the blocking call nor a stream open) and returns an error.
C14_InvalidInputNoVendorCall ==
    (adapter # "none" /\ (HasMalformedImage(req) \/ HasUnknownRole(req))) =>
        /\ vendorCalls = 0
        /\ vreq = Nil
        /\ pc \in {"adapter", "return", "done"}
        /\ AdapterReturned => (adapterResult.resp = Nil /\ adapterResult.err # NoErr)

\* a message that is neither a tool call nor a tool response and has no
\* text or image part: no part at all, or only parts of another type
HasNoValidContent(r) ==
    \E i \in 1..Len(r.Messages) :
        /\ r.Messages[i].ToolCall = Nil
        /\ r.Messages[i].ToolResponse = Nil
        /\ \A j \in 1..Len(r.Messages[i].Content) :
              r.Messages[i].Content[j].Type \notin {"text", "image"}

\* C15, as stated: a request with such a message is refused by the adapter
\* with an error; no vendor request holding an empty message is produced.
C15_NoValidContentIsAnError ==
    (adapter # "none" /\ HasNoValidContent(req)) =>
        /\ vreq = Nil
        /\ pc \in {"adapter", "return", "done"}
        /\ AdapterReturned => (adapterResult.resp = Nil /\ adapterResult.err # NoErr)

\* a field of the vendor request as the vendor gets it: Nil when it is not
\* set, [v |-> x] when it is set to x.  The openai request holds plain
\* values, of which the zero value is the unset one.
Plain(x, zero) == IF x = zero THEN Nil ELSE [v |-> x]

VendorMaxTokens(a, vr) ==
    CASE a = "anthropic" -> [v |-> vr.MaxTokens]
      [] a = "openai" -> Plain(vr.MaxTokens, 0)
      [] a = "google" -> vr.Config.MaxOutputTokens

\* C16, as stated: the vendor request of every adapter carries max-tokens
\* 2048 when the request's Config.MaxTokens is 0, and exactly n when it is
\* n > 0.
C16_MaxTokensDefault ==
    vreq # Nil =>
        VendorMaxTokens(adapter, vreq) =
            [v |-> IF req.Config.MaxTokens = 0 THEN 2048 ELSE req.Config.MaxTokens]

ConfigFields == {"Temperature", "TopP", "PresencePenalty", "FrequencyPenalty", "StopWords"}

PenaltyFields == {"PresencePenalty", "FrequencyPenalty"}

ZeroOf(f) == IF f = "StopWords" THEN <<>> ELSE 0

\* the vendor request's field for Config field f; the anthropic request has
\* none for the penalties
VendorField(a, vr, f) ==
    CASE a = "anthropic" ->
            IF f = "StopWords" THEN Plain(vr.StopSequences, <<>>)
            ELSE IF f \in DOMAIN vr THEN vr[f]
            ELSE Nil
      [] a = "openai" ->
            IF f = "StopWords" THEN Plain(vr.Stop, <<>>) ELSE Plain(vr[f], 0)
      [] a = "google" ->
            IF f = "StopWords" THEN Plain(vr.Config.StopSequences, <<>>)
            ELSE vr.Config[f]

\* C17, as stated: in the vendor request of every adapter each of the five
\* Config fields is set to the Config's value when that is not zero or
\* empty, and is not set when it is.
C17_ConfigFieldsCarried ==
    vreq # Nil =>
        \A f \in ConfigFields :
            VendorField(adapter, vreq, f) = Plain(req.Config[f], ZeroOf(f))

\* C17, amended: the same for openai and google, and for anthropic's
\* temperature, top-p and stop sequences; the anthropic request never
\* carries the presence and the frequency penalty.
C17_ConfigFieldsCarriedWhereTheVendorHasThem ==
    vreq # Nil =>
        \A f \in ConfigFields :
            VendorField(adapter, vreq, f) =
                IF adapter = "anthropic" /\ f \in PenaltyFields THEN Nil
                ELSE Plain(req.Config[f], ZeroOf(f))

\* an anthropic request was issued for a Config with a presence penalty and
\* a temperature: the temperature is carried
C17_Witness ==
    /\ adapter = "anthropic"
    /\ vreq # Nil
    /\ req.Config.PresencePenalty # 0
    /\ req.Config.TopP = 0
    /\ req.Config.Temperature # 0
    /\ vreq.Temperature = [v |-> req.Config.Temperature]
    /\ vreq.TopP = Nil

\* the tool-choice setting of a vendor request: Nil when none is set
VendorForcing(a, vr) ==
    CASE a = "anthropic" -> vr.ToolChoice
      [] a = "openai" -> vr.ToolChoice
      [] a = "google" ->
            IF vr.ToolConfig = Nil \/ vr.ToolConfig.FunctionCallingConfig = Nil THEN Nil
            ELSE [v |-> vr.ToolConfig.FunctionCallingConfig.Mode]

\* the setting of each vendor that requires a tool call
ForcingMode(a) ==
    CASE a = "anthropic" -> [v |-> "any"]
      [] a = "openai" -> [v |-> "required"]
      [] a = "google" -> [v |-> "ANY"]

\* C18: a vendor request built from a request with MustCallTool and at least
\* one tool declares one vendor tool per unified tool, in order, and its
\* tool-choice setting is the vendor's forcing one; a vendor request built
\* from a request without MustCallTool has no tool-choice setting.
C18_MustCallToolForces ==
    vreq # Nil =>
        /\ (req.MustCallTool /\ Len(req.Tools) >= 1) =>
              /\ Len(vreq.Tools) = Len(req.Tools)
              /\ \A i \in 1..Len(req.Tools) : vreq.Tools[i].Name = req.Tools[i].Name
              /\ VendorForcing(adapter, vreq) = ForcingMode(adapter)
        /\ ~req.MustCallTool => VendorForcing(adapter, vreq) = Nil

\* a google request was built from a request with a tool and MustCallTool
C18_Witness ==
    /\ adapter = "google"
    /\ vreq # Nil
    /\ req.MustCallTool
    /\ Len(req.Tools) >= 1
    /\ Len(vreq.Tools) = Len(req.Tools)
    /\ VendorForcing(adapter, vreq) = [v |-> "ANY"]

\* the blocking call of the adapter returned a response
BlockingSucceeded ==
    AdapterReturned /\ path = "blocking" /\ vresp # Nil /\ adapterResult.err = NoErr

RECURSIVE AnthropicBlockText(_)
AnthropicBlockText(blocks) ==
    IF blocks = <<>> THEN <<>>
    ELSE (IF Head(blocks).type = "text" THEN Head(blocks).text ELSE <<>>)
         \o AnthropicBlockText(Tail(blocks))

IsToolUseBlock(block) == block.type = "tool_use"

GoogleResponseParts(res) ==
    IF Len(res.Candidates) > 0 /\ res.Candidates[1].Content # Nil
    THEN res.Candidates[1].Content.Parts
    ELSE <<>>

\* the text a vendor response carries
VendorText(a, vr) ==
    CASE a = "anthropic" -> AnthropicBlockText(vr.Content)
      [] a = "openai" -> vr.Choices[1].Content
      [] a = "google" -> GoogleText(GoogleResponseParts(vr))

\* the tool-invocation blocks of a vendor response, as [ID, Name, Arguments]
VendorToolCalls(a, vr) ==
    CASE a = "anthropic" ->
            LET bs == SelectSeq(vr.Content, IsToolUseBlock)
            IN  [i \in 1..Len(bs) |->
                    [ID |-> bs[i].id, Name |-> bs[i].name, Arguments |-> bs[i].input]]
      [] a = "openai" -> vr.Choices[1].ToolCalls
      [] a = "google" ->
            LET fcs == GoogleFunctionCalls(GoogleResponseParts(vr))
            IN  [i \in 1..Len(fcs) |->
                    [ID |-> fcs[i].id, Name |-> fcs[i].name, Arguments |-> fcs[i].args]]

HasToolCall(m) == m.ToolCall # Nil
HasNoToolCall(m) == m.ToolCall = Nil

\* C19: the Messages of a blocking call's response hold at most one text
\* message, one exactly when the vendor response carries non-empty text,
\* and, in the vendor's order, one tool-call message with role ai, the call
\* id, the tool name and the arguments for each tool-invocation block.
C19_BlockingResponseMessages ==
    BlockingSucceeded =>
        LET msgs  == adapterResult.resp.Messages
            texts == SelectSeq(msgs, HasNoToolCall)
            tcs   == SelectSeq(msgs, HasToolCall)
            blocks == VendorToolCalls(adapter, vresp)
        IN  /\ Len(texts) <= 1
            /\ Len(texts) = 1 <=> VendorText(adapter, vresp) # <<>>
            /\ Len(tcs) = Len(blocks)
            /\ \A i \in 1..Len(tcs) :
                  /\ tcs[i].Role = MessageRoleAI
                  /\ tcs[i].ToolCall = blocks[i]

\* the identifier without its namespace: what follows the first "/"
AfterFirstSlash(id) == SubSeq(id, Min(Occurrences(id, Slash)) + 1, Len(id))

\* name is the identifier of the entry, or the identifier without its namespace
MatchesEitherForm(info, name) ==
    \/ info.Model = name
    \/ Contains(info.Model, Slash) /\ AfterFirstSlash(info.Model) = name

\* C20: once Generate has looked the requested name up, if some entry of
\* the catalog has that name as its identifier or as its identifier without
\* the namespace, the lookup yields an entry whose identifier contains the
\* name, and Generate does not report "model not found"; if no entry has,
\* the lookup yields nothing and Generate reports "model not found".
C20_NamespaceTolerantLookup ==
    pc = "done" =>
        LET c == NewOptions(opts).ModelCatalog
            m == GetModel(c, req.Model)
        IN  IF \E i \in 1..Len(c) : MatchesEitherForm(c[i], req.Model)
            THEN /\ m # Nil
                 /\ Contains(m.Model, req.Model)
                 /\ result.err # "model not found"
            ELSE /\ m = Nil
                 /\ result.err = "model not found"

\* C21: once Generate has looked the requested name up, if some entry's
\* identifier is the name, the lookup yields an entry whose identifier is
\* the name; if none is and the lookup yields an entry, the name is the
\* whole of that entry's identifier after its first "/".
C21_ExactMatchPreferred ==
    pc = "done" =>
        LET c == NewOptions(opts).ModelCatalog
            m == GetModel(c, req.Model)
        IN  IF \E i \in 1..Len(c) : c[i].Model = req.Model
            THEN m # Nil /\ m.Model = req.Model
            ELSE m # Nil =>
                    /\ Contains(m.Model, Slash)
                    /\ AfterFirstSlash(m.Model) = req.Model

\* CalculateCost was called directly and has returned
CostCalled == pc = "done" /\ ret # Nil /\ "usage" \in DOMAIN ret

\* some entry has the name as its identifier or as its second segment
EntryFound(c, name) ==
    \E i \in 1..Len(c) :
        \/ c[i].Model = name
        \/ Len(Split(c[i].Model, Slash)) > 1 /\ Split(c[i].Model, Slash)[2] = name

\* C22: the cost CalculateCost writes for a model with input and output
\* rates ci and co into a usage with ti input and to output tokens is
\* ci*ti + co*to, whatever the usage's reasoning, cache-creation, cached and
\* total token counts and the model's cache rates are.
C22_CostIsInputPlusOutput ==
    (CostCalled /\ ret.ok) =>
        LET m == GetModel(NewOptions(opts).ModelCatalog, req.Model)
        IN  ret.usage.Cost = m.InputTokenCost * arg.usage.InputTokens
                             + m.OutputTokenCost * arg.usage.OutputTokens

\* a cost was computed for a usage with input, output, reasoning and cache
\* tokens, with a model that has cache rates
C22_Witness ==
    /\ CostCalled
    /\ ret.ok
    /\ arg.usage.InputTokens > 0
    /\ arg.usage.OutputTokens > 0
    /\ arg.usage.ReasoningTokens > 0
    /\ arg.usage.CacheCreationTokens > 0
    /\ arg.usage.CachedTokens > 0
    /\ arg.usage.TotalTokens > 0
    /\ GetModel(NewOptions(opts).ModelCatalog, req.Model).CacheReadTokenCost > 0
    /\ ret.usage.Cost > 0

\* the adapter was called for a model its catalog does not have
AdapterModelUnknown ==
    /\ calls # <<>>
    /\ ~EntryFound(NewOptions(callOpts).ModelCatalog, callReq.Model)

\* the vendor answered the blocking call with something the adapter accepts
BlockingAnswered ==
    /\ path = "blocking"
    /\ vresp # Nil
    /\ adapter = "openai" => Len(vresp.Choices) > 0

\* C23: a direct CalculateCost returns true exactly when an entry is found;
\* then only Cost differs from the usage given, and it is the computed
\* cost; otherwise the usage is the one given, with Cost 0.  An adapter
\* called for a model its catalog does not have returns every Response
\* with Cost 0, and returns a Response without error whenever the vendor
\* answered its blocking call.
C23_CostAnnotationIsBestEffort ==
    /\ CostCalled =>
          LET c == NewOptions(opts).ModelCatalog
          IN  /\ ret.ok <=> EntryFound(c, req.Model)
              /\ ret.ok =>
                    /\ [ret.usage EXCEPT !.Cost = 0] = arg.usage
                    /\ ret.usage.Cost = calculateCost(GetModel(c, req.Model), arg.usage)
              /\ ~ret.ok => ret.usage = arg.usage /\ ret.usage.Cost = 0
    /\ (AdapterReturned /\ AdapterModelUnknown) =>
          /\ BlockingAnswered => adapterResult.err = NoErr
          /\ adapterResult.err = NoErr =>
                /\ adapterResult.resp # Nil
                /\ adapterResult.resp.Usage.Cost = 0

\* an adapter called for a model its catalog does not have got the vendor's
\* answer, with tokens used, and returned a Response
C23_Witness ==
    /\ AdapterReturned
    /\ AdapterModelUnknown
    /\ BlockingAnswered
    /\ adapterResult.err = NoErr
    /\ adapterResult.resp.Usage.InputTokens > 0
    /\ adapterResult.resp.Usage.Cost = 0

\* EncodeDataURL was called and its result handed to DecodeDataURL
EncodeCalled == pc = "done" /\ ret # Nil /\ "dataURL" \in DOMAIN ret

\* C24: decoding the data URL EncodeDataURL builds from a MIME type and a
\* byte sequence succeeds and gives back that byte sequence and that MIME
\* type.
C24_DataURLRoundTrip ==
    EncodeCalled =>
        /\ ret.decoded.err = NoErr
        /\ ret.decoded.data = arg.data
        /\ ret.decoded.mimeType = arg.mimeType

\* IsDataURL, SplitDataURL and DecodeDataURL were called on one string
InspectCalled == pc = "done" /\ ret # Nil /\ "split" \in DOMAIN ret

\* C25: SplitDataURL fails on a string exactly when DecodeDataURL rejects it
\* as "invalid data URL", which is its answer to a string without the
\* prefix or without exactly one separator.  When SplitDataURL succeeds the
\* string is "data:" + mime + ";base64," + payload, and the mime is the one
\* DecodeDataURL returns when it too succeeds; when it fails both results
\* are empty.
C25_SplitAgreesWithDecode ==
    InspectCalled =>
        /\ ret.split.err # NoErr <=> ret.decoded.err = "invalid data URL"
        /\ ret.split.err # NoErr <=>
              ~(HasPrefix(arg.dataURL, DataPrefix)
                /\ Cardinality(Occurrences(arg.dataURL, Base64Sep)) = 1)
        /\ ret.split.err = NoErr =>
              /\ arg.dataURL =
                    DataPrefix \o ret.split.mimeType \o Base64Sep \o ret.split.encodedData
              /\ ret.decoded.err = NoErr => ret.decoded.mimeType = ret.split.mimeType
        /\ ret.split.err # NoErr =>
              ret.split.mimeType = <<>> /\ ret.split.encodedData = <<>>

\* a string was split into a MIME type and a payload that decodes
C25_Witness ==
    /\ InspectCalled
    /\ ret.split.err = NoErr
    /\ ret.decoded.err = NoErr
    /\ ret.split.mimeType # <<>>
    /\ ret.split.encodedData # <<>>

\* C26: IsDataURL is true of a string exactly when the string begins with
\* "data:" and ";base64," occurs in it; it is false of the empty string, of
\* a URL that is no data URL and of a data URL without ";base64,", and true
\* of a string with both whether or not DecodeDataURL finds its payload to
\* be base64.
C26_IsDataURLIsStructural ==
    InspectCalled =>
        LET s == arg.dataURL
        IN  /\ ret.is <=>
                  /\ Len(s) >= Len(DataPrefix)
                  /\ \A i \in 1..Len(DataPrefix) : s[i] = DataPrefix[i]
                  /\ \E k \in 1..Len(s) :
                        /\ k + Len(Base64Sep) - 1 <= Len(s)
                        /\ \A i \in 1..Len(Base64Sep) : s[k + i - 1] = Base64Sep[i]
            /\ s = <<>> => ~ret.is
            /\ s = <<"h", "t", "t", "p", ":", "x">> => ~ret.is
            /\ s = DataPrefix \o <<"i", ",", "Q", "Q", "=", "=">> => ~ret.is
            /\ ret.decoded.err = "base64 decode failed" => ret.is

\* IsDataURL accepted a string whose payload is not base64
C26_Witness ==
    /\ InspectCalled
    /\ ret.is
    /\ ret.decoded.err = "base64 decode failed"

\* C27: during a Generate call made without an injected catalog the
\* embedded catalog is not unmarshalled again: whatever was loaded at
\* startup, the call adds at most the one load of the process.
C27_CatalogLoadedOnce ==
    opts.WithModelCatalog = Nil => parses <= 1

\* C29: the anthropic adapter's conversion of the request's messages never
\* indexes a message's content out of range: whatever the message, it ends
\* with a vendor message or with an error.
C29_AnthropicConvertMessageTotal == pc # "panic"

\* C30: every Response Generate returns without error names the request's
\* model and has a Usage.
C30_ResponseNamesModel ==
    (pc = "done" /\ result # Nil /\ result.err = NoErr) =>
        /\ result.resp.Model = req.Model
        /\ result.resp.Model # <<>>
        /\ result.resp.Usage # Nil

\* the text and the usage an openai stream's events add up to
RECURSIVE AloneContent(_)
AloneContent(evs) ==
    IF evs = <<>> THEN <<>>
    ELSE (IF Len(Head(evs).Choices) = 0 THEN <<>> ELSE Head(evs).Choices[1].Content)
         \o AloneContent(Tail(evs))

RECURSIVE AloneUsage(_)
AloneUsage(evs) ==
    IF evs = <<>> THEN ZeroUsage
    ELSE IF evs[Len(evs)].Usage # Nil THEN chatUsage(evs[Len(evs)].Usage)
    ELSE AloneUsage(SubSeq(evs, 1, Len(evs) - 1))

\* the Response the openai adapter builds, run alone, from the vendor
\* events or the vendor response an invocation with locals l received,
\* priced by catalog c
AloneResponse(l, c) ==
    IF l.path = "stream"
    THEN [Model        |-> l.req.Model,
          Messages     |-> <<NewTextMessage(MessageRoleAI, AloneContent(l.events))>>,
          FinishReason |-> "stop",
          Usage        |-> CalculateCost(c, l.req.Model, AloneUsage(l.events))]
    ELSE LET res == OpenAIChatCompletionResult(l.req, l.vresp).resp
         IN  [res EXCEPT !.Usage = CalculateCost(c, l.req.Model, res.Usage)]

\* an invocation with locals l still has the catalog it was given, and if
\* it has returned a Response, that is the Response of a run alone
Independent(l) ==
    /\ l.opts.WithModelCatalog = [catalog |-> ConcCatalog]
    /\ (l.result # Nil /\ l.result.err = NoErr) =>
          l.result.resp = AloneResponse(l, ConcCatalog)
    /\ (l.result # Nil /\ l.result.err # NoErr) => l.result.resp = Nil

====
